---------------------------- MODULE Spec2Model ----------------------------
(***************************************************************************)
(* Model of the correlation core of dailychartcrime:                       *)
(*   tools/compute_correlations.py  exclusion filter, calendar aligner     *)
(*                                  (overlap rule + LOCF), Pearson scorer  *)
(*                                  ranking and the two output files       *)
(*   tools/curate_series.py         reliability filter, title              *)
(*                                  deduplication, classification, family  *)
(*                                  caps, rotation list                    *)
(*   fred_get (all three tools)     one request with its retry loop and    *)
(*                                  the three request counters             *)
(*   tools/discover_all_fred.py     walk_category_tree (full-tree mode)    *)
(*                                                                         *)
(* Dates are integers (day numbers inside the window; ISO date strings     *)
(* compare the same way).  Titles and keywords are sequences of            *)
(* one-character strings so that lower() and substring tests are computed. *)
(* Observation values are binary floating-point numbers, see FloatBits.    *)
(***************************************************************************)
EXTENDS Integers, Sequences, FiniteSets

VARIABLES
  all_series,            \* the discovery catalog (list of series records)
  exclude_from_category, \* ids fetched from EXCLUDE_CATEGORY_ID
  filtered,              \* catalog after the exclusion filter
  excluded_examples,     \* what the run prints as "Excluded examples"
  sp500,                 \* benchmark observations, ascending by date
  i,                     \* index of the candidate being processed (0-based)
  pc,                    \* position in compute_correlations.__main__
  real_obs,              \* history: the observations fetched for the current candidate
  obs,                   \* current candidate's observations (or None)
  missing_dates,         \* benchmark dates the candidate has no observation for
  ff_invoked,            \* forward_fill was called for the current candidate
  sp_vals, other_vals,   \* aligned value lists
  r,                     \* pearson_r result for the current candidate
  results,               \* result records appended so far
  counters,              \* perfect_overlap / partial_overlap / no_overlap
  all_corr,              \* curate_series: rows loaded from the input file
  cpc,                   \* position in curate_series
  reliable, deduped,     \* curate_series steps 1 and 2
  funny_series, financial_series, other_series, \* curate_series step 3
  curated,               \* curate_series step 4: the rotation list being built
  error,                 \* id named by the error that aborted compute_correlations ("" if none)
  strict_correlations,   \* file strict_correlations.json
  strict_curated,        \* file strict_curated.json
  api_attempts, api_successes, api_retries, \* _api_attempts, _api_successes, _api_retries
  fpc,                   \* position in fred_get
  retries,               \* fred_get: the retries argument of the current call
  attempt,               \* fred_get: the loop variable
  attempts_before,       \* history: _api_attempts when the current call began
  resp,                  \* fred_get: what the last request produced
  fred,                  \* the server: children and series of every category
  walk_root,             \* the category the walk was started at
  walk_all_series,       \* walk_category_tree: all_series (ids collected)
  visited_cats,          \* walk_category_tree: visited_cats
  stack,                 \* walk_category_tree: the frames of the recursion
  wpc,                   \* position of the walk
  requested              \* history: the category requests sent by the walk

vars == <<all_series, exclude_from_category, filtered, excluded_examples, sp500,
          i, pc, real_obs, obs, missing_dates, ff_invoked, sp_vals, other_vals,
          r, results, counters, all_corr, cpc, reliable, deduped,
          funny_series, financial_series, other_series, curated, error,
          strict_correlations, strict_curated,
          api_attempts, api_successes, api_retries, fpc, retries, attempt,
          attempts_before, resp,
          fred, walk_root, walk_all_series, visited_cats, stack, wpc, requested>>

compute_vars == <<all_series, exclude_from_category, filtered, excluded_examples,
                  sp500, i, pc, real_obs, obs, missing_dates, ff_invoked,
                  sp_vals, other_vals, r, results, counters>>

curate_vars == <<all_corr, cpc, reliable, deduped, funny_series,
                 financial_series, other_series>>

output_vars == <<curated, error, strict_correlations, strict_curated>>

api_vars == <<api_attempts, api_successes, api_retries, fpc, retries, attempt,
              attempts_before, resp>>

walk_vars == <<fred, walk_root, walk_all_series, visited_cats, stack, wpc, requested>>

discover_vars == <<api_vars, walk_vars>>

---------------------------------------------------------------------------
(* Generic helpers                                                         *)

RECURSIVE Pow2(_)
Pow2(k) == IF k <= 0 THEN 1 ELSE 2 * Pow2(k - 1)

RECURSIVE Ilog2(_)
\* largest e with 2^e <= x, for x >= 1
Ilog2(x) == IF x < 2 THEN 0 ELSE 1 + Ilog2(x \div 2)

Abs(x) == IF x < 0 THEN -x ELSE x

RECURSIVE SumSeq(_)
SumSeq(s) == IF s = <<>> THEN 0 ELSE Head(s) + SumSeq(Tail(s))

Range(s) == {s[k] : k \in 1..Len(s)}

\* Python's `kw in t` for strings: kw occurs in t as a contiguous substring
Contains(t, kw) ==
  \E p \in 0..(Len(t) - Len(kw)) :
    \A k \in 1..Len(kw) : t[p + k] = kw[k]

\* any(kw in t for kw in kws)
ContainsAny(t, kws) == \E n \in 1..Len(kws) : Contains(t, kws[n])

lower_char(ch) ==
  CASE ch = "A" -> "a"
    [] ch = "B" -> "b"
    [] ch = "C" -> "c"
    [] ch = "D" -> "d"
    [] ch = "E" -> "e"
    [] ch = "F" -> "f"
    [] ch = "G" -> "g"
    [] ch = "H" -> "h"
    [] ch = "I" -> "i"
    [] ch = "J" -> "j"
    [] ch = "K" -> "k"
    [] ch = "L" -> "l"
    [] ch = "M" -> "m"
    [] ch = "N" -> "n"
    [] ch = "O" -> "o"
    [] ch = "P" -> "p"
    [] ch = "Q" -> "q"
    [] ch = "R" -> "r"
    [] ch = "S" -> "s"
    [] ch = "T" -> "t"
    [] ch = "U" -> "u"
    [] ch = "V" -> "v"
    [] ch = "W" -> "w"
    [] ch = "X" -> "x"
    [] ch = "Y" -> "y"
    [] ch = "Z" -> "z"
    [] OTHER -> ch

\* str.lower()
lower(t) == [k \in 1..Len(t) |-> lower_char(t[k])]

---------------------------------------------------------------------------
(* compute_correlations.py: constants                                      *)

EXCLUDE_KEYWORDS ==
  <<
    <<"v", "i", "x">>,
    <<"v", "o", "l", "a", "t", "i", "l", "i", "t", "y", " ", "i", "n", "d", "e", "x">>,
    <<"n", "i", "k", "k", "e", "i">>,
    <<"n", "a", "s", "d", "a", "q">>,
    <<"d", "o", "w", " ", "j", "o", "n", "e", "s">>,
    <<"r", "u", "s", "s", "e", "l", "l", " ", "2", "0", "0", "0">>,
    <<"s", "&", "p", " ", "5", "0", "0">>,
    <<"s", "&", "p", "5", "0", "0">>,
    <<"b", "i", "t", "c", "o", "i", "n">>,
    <<"e", "t", "h", "e", "r", "e", "u", "m">>,
    <<"c", "o", "i", "n", "b", "a", "s", "e">>,
    <<"l", "i", "t", "e", "c", "o", "i", "n">>,
    <<"b", "i", "t", "c", "o", "i", "n", " ", "c", "a", "s", "h">>,
    <<"c", "r", "y", "p", "t", "o">>,
    <<"g", "o", "l", "d", " ", "p", "r", "i", "c", "e">>,
    <<"s", "i", "l", "v", "e", "r", " ", "p", "r", "i", "c", "e">>,
    <<"c", "o", "p", "p", "e", "r", " ", "p", "r", "i", "c", "e">>,
    <<"o", "i", "l", " ", "p", "r", "i", "c", "e">>,
    <<"p", "l", "a", "t", "i", "n", "u", "m", " ", "p", "r", "i", "c", "e">>,
    <<"p", "a", "l", "l", "a", "d", "i", "u", "m", " ", "p", "r", "i", "c", "e">>,
    <<"w", "h", "e", "a", "t", " ", "p", "r", "i", "c", "e">>,
    <<"c", "o", "r", "n", " ", "p", "r", "i", "c", "e">>,
    <<"s", "o", "y", "b", "e", "a", "n", " ", "p", "r", "i", "c", "e">>,
    <<"l", "u", "m", "b", "e", "r", " ", "p", "r", "i", "c", "e">>,
    <<"c", "o", "t", "t", "o", "n", " ", "p", "r", "i", "c", "e">>,
    <<"c", "o", "f", "f", "e", "e", " ", "p", "r", "i", "c", "e">>,
    <<"c", "o", "c", "o", "a", " ", "p", "r", "i", "c", "e">>,
    <<"s", "u", "g", "a", "r", " ", "p", "r", "i", "c", "e">>,
    <<"c", "a", "t", "t", "l", "e", " ", "p", "r", "i", "c", "e">>,
    <<"n", "a", "t", "u", "r", "a", "l", " ", "g", "a", "s", " ", "p", "r", "i", "c", "e">>,
    <<"g", "a", "s", "o", "l", "i", "n", "e", " ", "p", "r", "i", "c", "e">>,
    <<"d", "i", "e", "s", "e", "l", " ", "p", "r", "i", "c", "e">>,
    <<"w", "t", "i">>,
    <<"b", "r", "e", "n", "t">>,
    <<"c", "o", "m", "m", "o", "d", "i", "t", "y", " ", "i", "n", "d", "e", "x">>,
    <<"s", "t", "o", "c", "k", " ", "p", "r", "i", "c", "e">>,
    <<"s", "h", "a", "r", "e", " ", "p", "r", "i", "c", "e">>,
    <<"e", "q", "u", "i", "t", "y", " ", "p", "r", "i", "c", "e">>,
    <<"t", "o", "t", "a", "l", " ", "r", "e", "t", "u", "r", "n", " ", "i", "n", "d", "e", "x", " ", "v", "a", "l", "u", "e">>
  >>

EXCLUDE_IDS ==
  {
    "BAMLCC0A0CMTRIV", "BAMLCC0A1AAATRIV", "BAMLHYH0A0HYM2TRIV", "BAMLHYH0A3CMTRIV", "CBBCHUSD",
    "CBBTCUSD", "CBETHUSD", "CBLTCUSD", "DCOILBRENTEU", "DCOILWTICO",
    "DGASNYH", "DGASRGCG", "DHHNGSP", "DPROPANEMBTX", "GOLDAMGBD228NLBM",
    "GOLDPMGBD228NLBM", "NIKKEI225", "RVXCLS", "SLVPRUSD", "VIXCLS",
    "VXAPLCLS", "VXAZNCLS", "VXDCLS", "VXEEMCLS", "VXEWZCLS",
    "VXFXICLS", "VXGDXCLS", "VXGOGCLS", "VXGSCLS", "VXIBMCLS",
    "VXNCLS", "VXSLVCLS", "VXUSCLS", "VXVCLS"
  }

\* MIN_OVERLAP_RATIO = 0.95, kept as a percentage
MIN_OVERLAP_PERCENT == 95

\* pearson_r: if len(xs) < 10
MIN_SAMPLES == 10

---------------------------------------------------------------------------
(* Exclusion filter                                                        *)

is_excluded_no_lower(series) ==
  \/ series.id \in EXCLUDE_IDS
  \/ ContainsAny(series.title, EXCLUDE_KEYWORDS)

is_excluded(series) ==
  LET sid   == series.id
      title == lower(series.title)
  IN  \/ sid \in EXCLUDE_IDS
      \/ ContainsAny(title, EXCLUDE_KEYWORDS)

\* effective_excluded_ids = EXCLUDE_IDS | exclude_from_category
effective_excluded_ids(category_ids) == EXCLUDE_IDS \cup category_ids

\* the comprehension that builds `filtered`
\* forgets the ids fetched from the excluded category
kept_by_filter_static_only(s, category_ids) == ~is_excluded(s)

kept_by_filter(s, category_ids) ==
  s.id \notin effective_excluded_ids(category_ids) /\ ~is_excluded(s)

---------------------------------------------------------------------------
(* Calendar aligner                                                        *)

None == [is_none |-> TRUE, val |-> <<>>]
Some(v) == [is_none |-> FALSE, val |-> v]

dates_of(list) == {list[k].date : k \in 1..Len(list)}

\* {o['date']: o['value'] for o in list}: a later entry overwrites an earlier one
dict_of(list) ==
  [d \in dates_of(list) |->
     LET last == CHOOSE k \in 1..Len(list) :
                   /\ list[k].date = d
                   /\ \A j \in (k + 1)..Len(list) : list[j].date # d
     IN  list[last].value]

RECURSIVE merge_by_date(_, _)
\* merge of two date-sorted runs; on equal dates the left run goes first
merge_by_date(a, b) ==
  IF a = <<>> THEN b
  ELSE IF b = <<>> THEN a
  ELSE IF Head(a).date <= Head(b).date
       THEN <<Head(a)>> \o merge_by_date(Tail(a), b)
       ELSE <<Head(b)>> \o merge_by_date(a, Tail(b))

RECURSIVE sorted_by_date(_)
\* sorted(obs, key=lambda x: x['date']): a stable merge sort
sorted_by_date(list) ==
  IF Len(list) <= 1 THEN list
  ELSE LET h == Len(list) \div 2
       IN  merge_by_date(sorted_by_date(SubSeq(list, 1, h)),
                         sorted_by_date(SubSeq(list, h + 1, Len(list))))

RECURSIVE sorted_dates(_)
\* sorted(a set of dates)
sorted_dates(S) ==
  IF S = {} THEN <<>>
  ELSE LET m == CHOOSE d \in S : \A e \in S : d <= e
       IN  <<m>> \o sorted_dates(S \ {m})

\* max_missing = int((1.0 - MIN_OVERLAP_RATIO) * len(sp500_dates)).
\* The double 1.0 - 0.95 is 0.05 + 4.4e-17, so the truncated product equals
\* floor(5n/100) for every n below 10^15.
max_missing_ceil(n) == ((100 - MIN_OVERLAP_PERCENT) * n + 99) \div 100

max_missing_of(n) == ((100 - MIN_OVERLAP_PERCENT) * n) \div 100

\* the inner loop of forward_fill: value of the last obs with date <= d, scanning
\* obs_sorted from the front and stopping at the first later date
RECURSIVE prior_value_scan(_, _, _)
prior_value_scan(obs_sorted, d, prior) ==
  IF obs_sorted = <<>> THEN prior
  ELSE IF Head(obs_sorted).date <= d
       THEN prior_value_scan(Tail(obs_sorted), d, Some(Head(obs_sorted).value))
       ELSE prior

\* a look-ahead fill: takes the first observation after d when none precedes it
prior_value_lookahead(obs_sorted, d) ==
  LET p == prior_value_scan(obs_sorted, d, None)
  IN  IF p.is_none /\ obs_sorted # <<>> THEN Some(Head(obs_sorted).value) ELSE p

\* stops at the first observation on or before d instead of the last one
prior_value_earliest(obs_sorted, d) ==
  IF obs_sorted # <<>> /\ Head(obs_sorted).date <= d
  THEN Some(Head(obs_sorted).value) ELSE None

prior_value(obs_sorted, d) == prior_value_scan(obs_sorted, d, None)

RECURSIVE fill_loop(_, _, _, _)
\* the loop `for d in sorted(target_dates)`; obs_map is tracked as its key set
\* plus the filled entries in `extra`
fill_loop(obs_sorted, keys, todo, extra) ==
  IF todo = <<>> THEN Some(extra)
  ELSE LET d == Head(todo) IN
       IF d \in keys THEN fill_loop(obs_sorted, keys, Tail(todo), extra)
       ELSE LET p == prior_value(obs_sorted, d) IN
            IF p.is_none THEN None
            ELSE fill_loop(obs_sorted, keys \cup {d}, Tail(todo),
                           Append(extra, [date |-> d, value |-> p.val]))

forward_fill(list, target_dates) ==
  LET obs_sorted == sorted_by_date(list)
      res == fill_loop(obs_sorted, dates_of(obs_sorted),
                       sorted_dates(target_dates), <<>>)
  IN  IF res.is_none THEN None ELSE Some(obs_sorted \o res.val)

---------------------------------------------------------------------------
(* Correlation scorer                                                      *)
(*                                                                         *)
(* np.array(xs, dtype=float) holds IEEE binary floating-point numbers and  *)
(* np.std / np.corrcoef round after every operation.  The model keeps the  *)
(* rounding (round-to-nearest, ties-to-even) and scales the mantissa from  *)
(* 53 bits to FloatBits bits; a number is held as an integer count of      *)
(* half units, so that the values used here and their means are exact      *)
(* members of the format.                                                  *)

\* mantissa width of the modelled float format (float64: 53)
FloatBits == 4

\* num/den (num >= 0, den > 0) rounded to an integer, ties to even
round_half_even(num, den) ==
  LET q   == num \div den
      rem == num % den
  IN  IF 2 * rem > den \/ (2 * rem = den /\ q % 2 = 1) THEN q + 1 ELSE q

\* the float nearest to the rational num/den (den > 0)
fl_round(num, den) ==
  LET a == Abs(num)
      q == a \div den
      e == IF q < Pow2(FloatBits) THEN 0 ELSE Ilog2(q) - (FloatBits - 1)
      m == round_half_even(a, den * Pow2(e))
  IN  (IF num < 0 THEN -1 ELSE 1) * m * Pow2(e)

fl_add(a, b) == fl_round(a + b, 1)
fl_sub(a, b) == fl_round(a - b, 1)
fl_div(a, n) == fl_round(a, n)

RECURSIVE fl_sum_loop(_, _)
\* res += a[i] over the given elements, in order
fl_sum_loop(res, a) ==
  IF a = <<>> THEN res ELSE fl_sum_loop(fl_add(res, Head(a)), Tail(a))

RECURSIVE fl_lane(_, _, _)
\* accumulator j of the 8-way unrolled loop: a[j], a[j+8], ... below `stop`
fl_lane(a, j, stop) ==
  IF j + 8 > stop THEN a[j]
  ELSE fl_add(fl_lane(a, j, stop - 8), a[stop - 8 + j])

\* numpy's add.reduce over a contiguous float array (pairwise summation):
\* fewer than 8 elements are added in order; up to 128 elements use eight
\* accumulators combined as a tree, then the n % 8 leftover elements in order
fl_sum(a) ==
  LET n == Len(a) IN
  IF n < 8 THEN fl_sum_loop(0, a)
  ELSE LET stop == n - (n % 8)
           acc  == [j \in 1..8 |-> fl_lane(a, j, stop)]
           tree == fl_add(fl_add(fl_add(acc[1], acc[2]), fl_add(acc[3], acc[4])),
                          fl_add(fl_add(acc[5], acc[6]), fl_add(acc[7], acc[8])))
       IN  fl_sum_loop(tree, SubSeq(a, stop + 1, n))

\* arr.mean(): sum / n
fl_mean(a) == fl_div(fl_sum(a), Len(a))

\* arr - arr.mean()
deviations(a) == LET m == fl_mean(a) IN [k \in 1..Len(a) |-> fl_sub(a[k], m)]

\* the guard as exact arithmetic would decide it: all values equal
std_is_zero_exact(a) == \A k \in 1..Len(a) : a[k] = a[1]

\* np.std(a) == 0: sqrt(mean(|a - mean|^2)) is zero exactly when every
\* deviation is zero (the squares of these magnitudes do not underflow)
std_is_zero(a) == LET dev == deviations(a) IN \A k \in 1..Len(a) : dev[k] = 0

NaN == [nan |-> TRUE, num |-> 0, den2 |-> 1]

\* np.corrcoef(xs, ys)[0, 1] = c01 / sqrt(c00 * c11) on the deviations from the
\* float means; the result is kept as the exact pair (num, den2) standing for
\* num / sqrt(den2); np.corrcoef clips the quotient to [-1, 1]
corrcoef(xs, ys) ==
  LET dx  == deviations(xs)
      dy  == deviations(ys)
      n   == Len(xs)
      c01 == SumSeq([k \in 1..n |-> dx[k] * dy[k]])
      c00 == SumSeq([k \in 1..n |-> dx[k] * dx[k]])
      c11 == SumSeq([k \in 1..n |-> dy[k] * dy[k]])
  IN  IF c00 = 0 \/ c11 = 0 THEN NaN
      ELSE IF c01 * c01 > c00 * c11
           THEN [nan |-> FALSE, num |-> IF c01 < 0 THEN -1 ELSE 1, den2 |-> 1]
           ELSE [nan |-> FALSE, num |-> c01, den2 |-> c00 * c11]

pearson_r_no_len_guard(xs, ys) ==
  IF std_is_zero(xs) \/ std_is_zero(ys) THEN NaN
  ELSE corrcoef(xs, ys)

pearson_r(xs, ys) ==
  IF Len(xs) < MIN_SAMPLES THEN NaN
  ELSE IF std_is_zero(xs) \/ std_is_zero(ys) THEN NaN
  ELSE corrcoef(xs, ys)

---------------------------------------------------------------------------
(* Inputs                                                                  *)

\* longest analysis window explored, in calendar days (WINDOW_DAYS is 60)
MaxWindow == 54

\* most benchmark dates a candidate may lack in the explored inputs
MaxGaps == 3

\* days on which a candidate may lack its observation (besides the last
\* benchmark date): the first days of the window and the Monday after a weekend
GapDays == {1, 2, 4, 5, 8}

\* days 6 and 7 of each week carry no benchmark observation
trading_day(d) == d % 7 \notin {0, 6}

\* window lengths giving 9, 10, 20 and 40 benchmark dates
Windows == {11, 12, 26, MaxWindow}

\* float values (in half units) of an input series on day d
value_on(shape, d) ==
  CASE shape = "ramp"   -> 16 + 2 * (d % 8)
    [] shape = "saw"    -> 16 + 2 * ((3 * d) % 5)
    [] shape = "down"   -> -(16 + 2 * (d % 8))
    [] shape = "flat8"  -> 16
    [] shape = "flat11" -> 22

observations_on(days, shape) ==
  LET ds == sorted_dates(days)
  IN  [k \in 1..Len(ds) |-> [date |-> ds[k], value |-> value_on(shape, ds[k])]]

\* what fetch_observations("SP500", window_start) may return
Benchmarks ==
  {observations_on({d \in 1..w : trading_day(d)}, shape) :
     w \in Windows, shape \in {"ramp", "flat8"}}

\* what fetch_observations(sid, window_start) may return for a candidate, given
\* the benchmark: observations on the benchmark dates, on every calendar day,
\* or none; minus up to MaxGaps gap dates
Candidates(bench) ==
  LET bd    == dates_of(bench)
      last  == CHOOSE d \in bd : \A e \in bd : e <= d
      gapds == {d \in bd : d \in GapDays \/ d = last}
      bases == {bd, 1..last, {}}
  IN  {observations_on(base \ gaps, shape) :
         base \in bases,
         gaps \in {g \in SUBSET gapds : Cardinality(g) <= MaxGaps},
         shape \in {"ramp", "saw", "down", "flat8", "flat11"}}

S(id, title) == [id |-> id, title |-> title]

\* a catalog entry the exclusion filter keeps
PlainSeries ==
  S("DFF", <<"F", "e", "d", "e", "r", "a", "l", " ", "F", "u", "n", "d", "s">>)

---------------------------------------------------------------------------
(* compute_correlations.py: __main__                                       *)

sp500_dates == dates_of(sp500)
sp500_map == dict_of(sp500)
max_missing == max_missing_of(Cardinality(sp500_dates))

ComputeInit ==
  /\ all_series = <<>>
  /\ exclude_from_category = {}
  /\ filtered = <<>>
  /\ excluded_examples = <<>>
  /\ sp500 = <<>>
  /\ i = 0
  /\ pc = "category"
  /\ real_obs = <<>>
  /\ obs = None
  /\ missing_dates = {}
  /\ ff_invoked = FALSE
  /\ sp_vals = <<>>
  /\ other_vals = <<>>
  /\ r = NaN
  /\ results = <<>>
  /\ counters = [perfect_overlap |-> 0, partial_overlap |-> 0, no_overlap |-> 0]

CurateIdle ==
  /\ all_corr = <<>>
  /\ cpc = "idle"
  /\ reliable = <<>>
  /\ deduped = <<>>
  /\ funny_series = <<>>
  /\ financial_series = <<>>
  /\ other_series = <<>>

\* a file that does not exist / a file holding a JSON list
NoFile == [exists |-> FALSE, rows |-> <<>>]
File(rows) == [exists |-> TRUE, rows |-> rows]

\* nothing written, nothing raised
NoOutput ==
  /\ curated = <<>>
  /\ error = ""
  /\ strict_correlations = NoFile
  /\ strict_curated = NoFile

\* no request sent, no walk started (the module-level counters, lines 44-46
\* of compute_correlations.py, 49-51 of discover_all_fred.py)
DiscoverIdle ==
  /\ api_attempts = 0
  /\ api_successes = 0
  /\ api_retries = 0
  /\ fpc = "idle"
  /\ retries = 0
  /\ attempt = 0
  /\ attempts_before = 0
  /\ resp = None
  /\ fred = <<>>
  /\ walk_root = 0
  /\ walk_all_series = {}
  /\ visited_cats = {}
  /\ stack = <<>>
  /\ wpc = "idle"
  /\ requested = <<>>

\* lines 252-255: fetch the ids of the excluded category
FetchCategory(category_sets) ==
  /\ pc = "category"
  /\ exclude_from_category' \in category_sets
  /\ pc' = "catalog"
  /\ UNCHANGED <<all_series, filtered, excluded_examples, sp500, i, real_obs, obs,
                 missing_dates, ff_invoked, sp_vals, other_vals, r, results,
                 counters>>
  /\ UNCHANGED curate_vars
  /\ UNCHANGED output_vars
  /\ UNCHANGED discover_vars

\* lines 257-286: all_series = the discovery file's content
SetCatalog(catalog) ==
  /\ pc = "catalog"
  /\ all_series' = catalog
  /\ pc' = "filter"
  /\ UNCHANGED <<exclude_from_category, filtered, excluded_examples, sp500, i,
                 real_obs, obs, missing_dates, ff_invoked, sp_vals, other_vals, r,
                 results, counters>>
  /\ UNCHANGED curate_vars
  /\ UNCHANGED output_vars
  /\ UNCHANGED discover_vars

LoadCatalog(catalogs) ==
  /\ pc = "catalog"
  /\ \E catalog \in catalogs : SetCatalog(catalog)

\* lines 287-302: an empty catalog is fatal; otherwise build `filtered` and the
\* "Excluded examples" listing
FilterCatalog ==
  /\ pc = "filter"
  /\ IF all_series = <<>>
     THEN /\ pc' = "aborted"
          /\ UNCHANGED <<filtered, excluded_examples>>
     ELSE /\ filtered' = SelectSeq(all_series,
                           LAMBDA s : kept_by_filter(s, exclude_from_category))
          /\ excluded_examples' =
               LET ex == SelectSeq(all_series, is_excluded)
               IN  SubSeq(ex, 1, IF Len(ex) < 20 THEN Len(ex) ELSE 20)
          /\ pc' = "benchmark"
  /\ UNCHANGED <<real_obs, all_series, exclude_from_category, sp500, i, obs, missing_dates,
                 ff_invoked, sp_vals, other_vals, r, results, counters>>
  /\ UNCHANGED curate_vars
  /\ UNCHANGED output_vars
  /\ UNCHANGED discover_vars

\* goes on into the candidate loop without observations of the benchmark
FetchBenchmark_no_check(benchmarks) ==
  /\ pc = "benchmark"
  /\ \E b \in benchmarks :
       /\ sp500' = b
       /\ pc' = "loop"
  /\ UNCHANGED <<real_obs, all_series, exclude_from_category, filtered, excluded_examples,
                 i, obs, missing_dates, ff_invoked, sp_vals, other_vals, r,
                 results, counters>>
  /\ UNCHANGED curate_vars
  /\ UNCHANGED output_vars
  /\ UNCHANGED discover_vars

\* lines 308-318: fetch the benchmark; no observations is fatal
FetchBenchmark(benchmarks) ==
  /\ pc = "benchmark"
  /\ \E b \in benchmarks :
       /\ sp500' = b
       /\ pc' = IF b = <<>> THEN "aborted" ELSE "loop"
  /\ UNCHANGED <<real_obs, all_series, exclude_from_category, filtered, excluded_examples,
                 i, obs, missing_dates, ff_invoked, sp_vals, other_vals, r,
                 results, counters>>
  /\ UNCHANGED curate_vars
  /\ UNCHANGED output_vars
  /\ UNCHANGED discover_vars

\* lines 326-340: next candidate: fetch its observations, compute missing_dates
FetchCandidate ==
  /\ pc = "loop"
  /\ i < Len(filtered)
  /\ \E o \in Candidates(sp500) :
       /\ real_obs' = o
       /\ obs' = Some(o)
       /\ missing_dates' = sp500_dates \ dates_of(o)
  /\ ff_invoked' = FALSE
  /\ pc' = "overlap"
  /\ UNCHANGED <<all_series, exclude_from_category, filtered, excluded_examples,
                 sp500, i, sp_vals, other_vals, r, results, counters>>
  /\ UNCHANGED curate_vars
  /\ UNCHANGED output_vars
  /\ UNCHANGED discover_vars

Bump(field) == [counters EXCEPT ![field] = @ + 1]

\* accepts one missing date more than the limit
overlap_rejects_late(n_missing, limit) == n_missing > limit + 1

\* if len(missing_dates) > max_missing
overlap_rejects(n_missing, limit) == n_missing > limit

\* lines 341-343: too many missing benchmark dates: count and continue
OverlapCheck ==
  /\ pc = "overlap"
  /\ IF overlap_rejects(Cardinality(missing_dates), max_missing)
     THEN /\ counters' = Bump("partial_overlap")
          /\ i' = i + 1
          /\ pc' = "loop"
     ELSE /\ pc' = "fill"
          /\ UNCHANGED <<counters, i>>
  /\ UNCHANGED <<real_obs, all_series, exclude_from_category, filtered, excluded_examples,
                 sp500, obs, missing_dates, ff_invoked, sp_vals, other_vals, r,
                 results>>
  /\ UNCHANGED curate_vars
  /\ UNCHANGED output_vars
  /\ UNCHANGED discover_vars

\* an unfillable candidate ends the run
Fill_aborting ==
  /\ pc = "fill"
  /\ IF missing_dates # {}
     THEN /\ ff_invoked' = TRUE
          /\ obs' = forward_fill(obs.val, missing_dates)
          /\ IF obs'.is_none
             THEN /\ counters' = Bump("partial_overlap")
                  /\ pc' = "aborted"
                  /\ UNCHANGED i
             ELSE /\ pc' = "align"
                  /\ UNCHANGED <<counters, i>>
     ELSE /\ pc' = "align"
          /\ UNCHANGED <<ff_invoked, obs, counters, i>>
  /\ UNCHANGED <<real_obs, all_series, exclude_from_category, filtered, excluded_examples,
                 sp500, missing_dates, sp_vals, other_vals, r, results>>
  /\ UNCHANGED curate_vars
  /\ UNCHANGED output_vars
  /\ UNCHANGED discover_vars

\* lines 345-349: LOCF for the missing dates; None rejects the candidate
Fill ==
  /\ pc = "fill"
  /\ IF missing_dates # {}
     THEN /\ ff_invoked' = TRUE
          /\ obs' = forward_fill(obs.val, missing_dates)
          /\ IF obs'.is_none
             THEN /\ counters' = Bump("partial_overlap")
                  /\ i' = i + 1
                  /\ pc' = "loop"
             ELSE /\ pc' = "align"
                  /\ UNCHANGED <<counters, i>>
     ELSE /\ pc' = "align"
          /\ UNCHANGED <<ff_invoked, obs, counters, i>>
  /\ UNCHANGED <<real_obs, all_series, exclude_from_category, filtered, excluded_examples,
                 sp500, missing_dates, sp_vals, other_vals, r, results>>
  /\ UNCHANGED curate_vars
  /\ UNCHANGED output_vars
  /\ UNCHANGED discover_vars

\* lines 351-359: both value lists in ascending benchmark-date order
Align ==
  /\ pc = "align"
  /\ LET obs_map == dict_of(obs.val)
         dates   == sorted_dates(sp500_dates)
     IN  /\ sp_vals' = [k \in 1..Len(dates) |-> sp500_map[dates[k]]]
         /\ other_vals' = [k \in 1..Len(dates) |-> obs_map[dates[k]]]
  /\ pc' = "score"
  /\ UNCHANGED <<real_obs, all_series, exclude_from_category, filtered, excluded_examples,
                 sp500, i, obs, missing_dates, ff_invoked, r, results, counters>>
  /\ UNCHANGED curate_vars
  /\ UNCHANGED output_vars
  /\ UNCHANGED discover_vars

abs_r_of(x) == [x EXCEPT !.num = Abs(@)]

\* lines 361-375: score; a defined r appends a result record
Score ==
  /\ pc = "score"
  /\ r' = pearson_r(sp_vals, other_vals)
  /\ IF ~r'.nan
     THEN /\ counters' = Bump("perfect_overlap")
          /\ results' = Append(results,
               [id |-> filtered[i + 1].id,
                title |-> filtered[i + 1].title,
                r |-> r',
                abs_r |-> abs_r_of(r'),
                n_dates |-> Cardinality(sp500_dates),
                filled_dates |-> sorted_dates(missing_dates)])
     ELSE /\ counters' = Bump("no_overlap")
          /\ UNCHANGED results
  /\ i' = i + 1
  /\ pc' = "loop"
  /\ UNCHANGED <<real_obs, all_series, exclude_from_category, filtered, excluded_examples,
                 sp500, obs, missing_dates, ff_invoked, sp_vals, other_vals>>
  /\ UNCHANGED curate_vars
  /\ UNCHANGED output_vars
  /\ UNCHANGED discover_vars

---------------------------------------------------------------------------
(* SpecAlign: one run of compute_correlations over a one-entry catalog,    *)
(* every benchmark of Benchmarks and every candidate of Candidates         *)

InitAlign == ComputeInit /\ CurateIdle /\ NoOutput /\ DiscoverIdle

NextAlign ==
  \/ FetchCategory({{}})
  \/ LoadCatalog({<<PlainSeries>>})
  \/ FilterCatalog
  \/ FetchBenchmark(Benchmarks)
  \/ FetchCandidate
  \/ OverlapCheck
  \/ Fill
  \/ Align
  \/ Score

SpecAlign == InitAlign /\ [][NextAlign]_vars

---------------------------------------------------------------------------
(* curate_series.py                                                        *)

\* reliability floor: aligned_count(c) >= 20
MIN_ALIGNED == 20

\* category thresholds on abs_r, in millionths (abs_r is written with 6 decimals)
FUNNY_MIN_ABS_R == 150000
FINANCIAL_MIN_ABS_R == 100000
OTHER_MIN_ABS_R == 300000

\* is_funny: funny_keywords
funny_keywords ==
  <<
    <<"i", "n", "d", "e", "e", "d">>,
    <<"j", "o", "b", " ", "p", "o", "s", "t", "i", "n", "g">>,
    <<"b", "e", "a", "u", "t", "y">>,
    <<"w", "e", "l", "l", "n", "e", "s", "s">>,
    <<"t", "h", "e", "r", "a", "p", "y">>,
    <<"n", "u", "r", "s", "i", "n", "g">>,
    <<"p", "h", "a", "r", "m", "a", "c", "y">>,
    <<"c", "o", "f", "f", "e", "e">>,
    <<"b", "i", "t", "c", "o", "i", "n">>,
    <<"c", "r", "y", "p", "t", "o">>,
    <<"l", "o", "a", "d", "i", "n", "g">>,
    <<"s", "t", "o", "c", "k", "i", "n", "g">>,
    <<"i", "n", "s", "t", "a", "l", "l", "a", "t", "i", "o", "n">>,
    <<"m", "a", "i", "n", "t", "e", "n", "a", "n", "c", "e">>,
    <<"s", "c", "i", "e", "n", "t", "i", "f", "i", "c", " ", "r", "e", "s", "e", "a", "r", "c", "h">>,
    <<"r", "e", "a", "l", " ", "e", "s", "t", "a", "t", "e">>,
    <<"s", "o", "f", "t", "w", "a", "r", "e", " ", "d", "e", "v", "e", "l", "o", "p", "m", "e", "n", "t">>,
    <<"m", "a", "r", "k", "e", "t", "i", "n", "g">>,
    <<"i", "n", "s", "u", "r", "a", "n", "c", "e">>,
    <<"m", "e", "d", "i", "a">>,
    <<"h", "u", "m", "a", "n", " ", "r", "e", "s", "o", "u", "r", "c", "e", "s">>,
    <<"o", "r", "e", "g", "o", "n">>,
    <<"w", "e", "s", "t", " ", "v", "i", "r", "g", "i", "n", "i", "a">>,
    <<"t", "e", "n", "n", "e", "s", "s", "e", "e">>,
    <<"m", "a", "i", "n", "e">>,
    <<"a", "u", "s", "t", "r", "a", "l", "i", "a">>,
    <<"g", "e", "r", "m", "a", "n", "y">>,
    <<"f", "r", "a", "n", "c", "e">>,
    <<"u", "n", "i", "t", "e", "d", " ", "k", "i", "n", "g", "d", "o", "m">>,
    <<"c", "a", "n", "a", "d", "a">>
  >>

\* is_interesting_financial: interesting
interesting ==
  <<
    <<"V", "I", "X">>,
    <<"H", "i", "g", "h", " ", "Y", "i", "e", "l", "d", " ", "I", "n", "d", "e", "x", " ", "O", "p", "t", "i", "o", "n", "-", "A", "d", "j", "u", "s", "t", "e", "d", " ", "S", "p", "r", "e", "a", "d">>,
    <<"P", "o", "l", "i", "c", "y", " ", "R", "a", "t", "e", " ", "U", "n", "c", "e", "r", "t", "a", "i", "n", "t", "y">>,
    <<"B", "r", "e", "a", "k", "e", "v", "e", "n", " ", "I", "n", "f", "l", "a", "t", "i", "o", "n">>,
    <<"1", "0", "-", "Y", "e", "a", "r", " ", "T", "r", "e", "a", "s", "u", "r", "y">>,
    <<"D", "o", "l", "l", "a", "r", " ", "I", "n", "d", "e", "x">>,
    <<"G", "o", "l", "d">>,
    <<"N", "i", "k", "k", "e", "i">>,
    <<"S", "O", "F", "R">>,
    <<"F", "e", "d", "e", "r", "a", "l", " ", "F", "u", "n", "d", "s">>,
    <<"M", "o", "r", "t", "g", "a", "g", "e">>,
    <<"S", "w", "a", "p">>
  >>

\* row.get("n_dates", row.get("n_aligned", 0))
aligned_count(row) ==
  IF "n_dates" \in DOMAIN row THEN row.n_dates
  ELSE IF "n_aligned" \in DOMAIN row THEN row.n_aligned
  ELSE 0

\* accepts one sample fewer than the floor
is_reliable_lenient(row) == aligned_count(row) >= MIN_ALIGNED - 1

is_reliable(row) == aligned_count(row) >= MIN_ALIGNED

RECURSIVE dedupe_loop_forgetful(_, _, _)
\* forgets a title again when it meets its duplicate
dedupe_loop_forgetful(rows, seen_titles, out) ==
  IF rows = <<>> THEN out
  ELSE LET c == Head(rows) IN
       IF c.title \notin seen_titles
       THEN dedupe_loop_forgetful(Tail(rows), seen_titles \cup {c.title},
                                  Append(out, c))
       ELSE dedupe_loop_forgetful(Tail(rows), seen_titles \ {c.title}, out)

RECURSIVE dedupe_loop_caseless(_, _, _)
\* compares lower-cased titles
dedupe_loop_caseless(rows, seen_titles, out) ==
  IF rows = <<>> THEN out
  ELSE LET c == Head(rows) IN
       IF lower(c.title) \notin seen_titles
       THEN dedupe_loop_caseless(Tail(rows), seen_titles \cup {lower(c.title)},
                                 Append(out, c))
       ELSE dedupe_loop_caseless(Tail(rows), seen_titles, out)

RECURSIVE dedupe_loop(_, _, _)
\* for c in reliable: if c["title"] not in seen_titles: add, append
dedupe_loop(rows, seen_titles, out) ==
  IF rows = <<>> THEN out
  ELSE LET c == Head(rows) IN
       IF c.title \notin seen_titles
       THEN dedupe_loop(Tail(rows), seen_titles \cup {c.title}, Append(out, c))
       ELSE dedupe_loop(Tail(rows), seen_titles, out)

dedupe_forgetful(rows) == dedupe_loop_forgetful(rows, {}, <<>>)

dedupe_caseless(rows) == dedupe_loop_caseless(rows, {}, <<>>)

\* step 2: seen_titles = set(); deduped = []; the loop
dedupe(rows) == dedupe_loop(rows, {}, <<>>)

\* any(kw in c["title"].lower() for kw in funny_keywords)
is_funny(c) == ContainsAny(lower(c.title), funny_keywords)

\* any(kw in c["title"] for kw in interesting): case-sensitive
is_interesting_financial(c) == ContainsAny(c.title, interesting)

\* a humor keyword decides alone: no fall-through below the funny threshold
category_no_fallthrough(c) ==
  IF is_funny(c)
  THEN (IF c.abs_r > FUNNY_MIN_ABS_R THEN "funny" ELSE "dropped")
  ELSE IF is_interesting_financial(c) /\ c.abs_r > FINANCIAL_MIN_ABS_R
       THEN "financial"
  ELSE IF c.abs_r > OTHER_MIN_ABS_R THEN "other"
  ELSE "dropped"

\* the if / elif / elif chain of the classification loop
category(c) ==
  IF is_funny(c) /\ c.abs_r > FUNNY_MIN_ABS_R THEN "funny"
  ELSE IF is_interesting_financial(c) /\ c.abs_r > FINANCIAL_MIN_ABS_R
       THEN "financial"
  ELSE IF c.abs_r > OTHER_MIN_ABS_R THEN "other"
  ELSE "dropped"

in_category(rows, cat) == SelectSeq(rows, LAMBDA c : category(c) = cat)

\* step 1
FilterReliable ==
  /\ cpc = "reliable"
  /\ reliable' = SelectSeq(all_corr, is_reliable)
  /\ cpc' = "dedupe"
  /\ UNCHANGED <<all_corr, deduped, funny_series, financial_series, other_series>>
  /\ UNCHANGED compute_vars
  /\ UNCHANGED output_vars
  /\ UNCHANGED discover_vars

\* step 2
Dedupe ==
  /\ cpc = "dedupe"
  /\ deduped' = dedupe(reliable)
  /\ cpc' = "classify"
  /\ UNCHANGED <<all_corr, reliable, funny_series, financial_series, other_series>>
  /\ UNCHANGED compute_vars
  /\ UNCHANGED output_vars
  /\ UNCHANGED discover_vars

\* step 3: the classification loop
Classify ==
  /\ cpc = "classify"
  /\ funny_series' = in_category(deduped, "funny")
  /\ financial_series' = in_category(deduped, "financial")
  /\ other_series' = in_category(deduped, "other")
  /\ cpc' = "sort"
  /\ UNCHANGED <<all_corr, reliable, deduped>>
  /\ UNCHANGED compute_vars
  /\ UNCHANGED output_vars
  /\ UNCHANGED discover_vars

---------------------------------------------------------------------------
(* SpecCurate: one run of curate_series over every input file that         *)
(* LoadTwinRows and LoadSingleRow produce                                  *)

\* longest input list explored
MaxRows == 3

TitlePool ==
  {
    <<"M", "a", "i", "n", "e">>,
    <<"M", "a", "i", "n", "e", " ">>,
    <<"m", "a", "i", "n", "e">>,
    <<"M", "A", "I", "N", "E">>,
    <<"G", "o", "l", "d">>,
    <<"g", "o", "l", "d">>,
    <<"M", "a", "i", "n", "e", " ", "G", "o", "l", "d">>,
    <<"R", "a", "t", "e">>
  }

\* titles that differ only in case or trailing whitespace
TwinTitles ==
  {
    <<"M", "a", "i", "n", "e">>,
    <<"M", "a", "i", "n", "e", " ">>,
    <<"m", "a", "i", "n", "e">>
  }

AbsRPool == {100000, 100001, 150000, 150001, 300000, 300001}

RowIds == <<"S1", "S2", "S3", "S4", "S5", "S6", "S7", "S8">>

\* the k-th row of an input file; ids are unique
Row(k, title, abs_r, n) ==
  [id |-> RowIds[k], title |-> title, abs_r |-> abs_r, n_dates |-> n]

\* lines 24-25: all_corr = json.load(f)
SetCorrelations(rows) ==
  /\ cpc = "load"
  /\ all_corr' = rows
  /\ cpc' = "reliable"
  /\ UNCHANGED <<reliable, deduped, funny_series, financial_series, other_series>>
  /\ UNCHANGED compute_vars
  /\ UNCHANGED output_vars
  /\ UNCHANGED discover_vars

\* input files of up to MaxRows rows over the twin titles
LoadTwinRows ==
  /\ cpc = "load"
  /\ \E n \in 0..MaxRows :
       \E f \in [1..n -> TwinTitles \X {150000, 300001}
                                    \X {MIN_ALIGNED - 1, MIN_ALIGNED}] :
         SetCorrelations([k \in 1..n |-> Row(k, f[k][1], f[k][2], f[k][3])])

\* input files of one row over the whole title and abs_r pools
LoadSingleRow ==
  /\ cpc = "load"
  /\ \E t \in TitlePool, a \in AbsRPool :
       SetCorrelations(<<Row(1, t, a, MIN_ALIGNED)>>)

ComputeIdle ==
  /\ all_series = <<>>
  /\ exclude_from_category = {}
  /\ filtered = <<>>
  /\ excluded_examples = <<>>
  /\ sp500 = <<>>
  /\ i = 0
  /\ pc = "idle"
  /\ real_obs = <<>>
  /\ obs = None
  /\ missing_dates = {}
  /\ ff_invoked = FALSE
  /\ sp_vals = <<>>
  /\ other_vals = <<>>
  /\ r = NaN
  /\ results = <<>>
  /\ counters = [perfect_overlap |-> 0, partial_overlap |-> 0, no_overlap |-> 0]

CurateInit ==
  /\ all_corr = <<>>
  /\ cpc = "load"
  /\ reliable = <<>>
  /\ deduped = <<>>
  /\ funny_series = <<>>
  /\ financial_series = <<>>
  /\ other_series = <<>>

InitCurate == ComputeIdle /\ CurateInit /\ NoOutput /\ DiscoverIdle

NextCurate ==
  \/ LoadTwinRows
  \/ LoadSingleRow
  \/ FilterReliable
  \/ Dedupe
  \/ Classify

SpecCurate == InitCurate /\ [][NextCurate]_vars

---------------------------------------------------------------------------
(* SpecExclude: the exclusion filter over every one-entry catalog whose    *)
(* title is a string of at most MaxTitleLen characters of TitleChars       *)

\* longest catalog title explored
MaxTitleLen == 4

TitleChars == {"v", "V", "i", "x", "X", " "}

\* an id of the static list, two ids that only the category fetch reports, and
\* an id that is in neither
CatalogIds == {"VIXCLS", "SP500", "DJIA", "DFF"}

CategorySets == {{}, {"SP500", "DJIA"}}

\* discovery files holding one series with a short title, or nothing
LoadShortTitleCatalog ==
  /\ pc = "catalog"
  /\ \/ \E id \in CatalogIds, n \in 0..MaxTitleLen :
          \E t \in [1..n -> TitleChars] : SetCatalog(<<S(id, t)>>)
     \/ SetCatalog(<<>>)

InitExclude == ComputeInit /\ CurateIdle /\ NoOutput /\ DiscoverIdle

NextExclude ==
  \/ FetchCategory(CategorySets)
  \/ LoadShortTitleCatalog
  \/ FilterCatalog

SpecExclude == InitExclude /\ [][NextExclude]_vars

---------------------------------------------------------------------------
(* curate_series.py, steps 4 and 5: per-category sort, family caps,        *)
(* rotation list, output file                                              *)

\* list.sort(key=..., reverse=True) is stable: rows with equal keys keep their
\* order.  order_desc gives the positions of keys in that order.
RECURSIVE insert_index(_, _, _)
insert_index(perm, j, keys) ==
  IF perm = <<>> THEN <<j>>
  ELSE IF keys[Head(perm)] >= keys[j]
       THEN <<Head(perm)>> \o insert_index(Tail(perm), j, keys)
       ELSE <<j>> \o perm

RECURSIVE order_desc(_, _)
order_desc(keys, n) ==
  IF n = 0 THEN <<>> ELSE insert_index(order_desc(keys, n - 1), n, keys)

\* leaves the rows in the order they were appended
sorted_desc_not_sorted(rows, keys) == rows

\* rows.sort(key=lambda x: keys[x], reverse=True)
sorted_desc(rows, keys) ==
  LET perm == order_desc(keys, Len(rows))
  IN  [k \in 1..Len(rows) |-> rows[perm[k]]]

\* x.sort(key=lambda x: x["abs_r"], reverse=True)
sort_by_abs_r(rows) == sorted_desc(rows, [k \in 1..Len(rows) |-> rows[k].abs_r])

ICE_BofA == <<"I", "C", "E", " ", "B", "o", "f", "A">>
CBOE == <<"C", "B", "O", "E">>
VIX == <<"V", "I", "X">>

\* baml_count > 5, vix_count > 3
BAML_CAP == 5
VIX_CAP == 3

\* {**c, "category": cat}
with_category(c, cat) ==
  [x \in DOMAIN c \cup {"category"} |-> IF x = "category" THEN cat ELSE c[x]]

\* lets one CBOE/VIX row too many through
RECURSIVE cap_financial_late(_, _, _)
cap_financial_late(rows, baml_count, vix_count) ==
  IF rows = <<>> THEN <<>>
  ELSE
    LET c       == Head(rows)
        is_baml == Contains(c.title, ICE_BofA)
        baml    == IF is_baml THEN baml_count + 1 ELSE baml_count
        is_vix  == Contains(c.title, CBOE) \/ Contains(c.title, VIX)
        vix     == IF is_vix THEN vix_count + 1 ELSE vix_count
    IN  IF is_baml /\ baml > BAML_CAP
        THEN cap_financial_late(Tail(rows), baml, vix_count)
        ELSE IF is_vix /\ vix > VIX_CAP + 1
             THEN cap_financial_late(Tail(rows), baml, vix)
             ELSE <<with_category(c, "financial")>>
                    \o cap_financial_late(Tail(rows), baml, vix)

\* lines 118-128: the loop over financial_series with its two counters
RECURSIVE cap_financial(_, _, _)
cap_financial(rows, baml_count, vix_count) ==
  IF rows = <<>> THEN <<>>
  ELSE
    LET c       == Head(rows)
        is_baml == Contains(c.title, ICE_BofA)
        baml    == IF is_baml THEN baml_count + 1 ELSE baml_count
        is_vix  == Contains(c.title, CBOE) \/ Contains(c.title, VIX)
        vix     == IF is_vix THEN vix_count + 1 ELSE vix_count
    IN  IF is_baml /\ baml > BAML_CAP
        THEN cap_financial(Tail(rows), baml, vix_count)
        ELSE IF is_vix /\ vix > VIX_CAP
             THEN cap_financial(Tail(rows), baml, vix)
             ELSE <<with_category(c, "financial")>>
                    \o cap_financial(Tail(rows), baml, vix)

\* lines 131-135: other rows of the two families are skipped
keep_other(rows) ==
  LET kept == SelectSeq(rows, LAMBDA c :
                ~(Contains(c.title, ICE_BofA) \/ Contains(c.title, CBOE)))
  IN  [k \in 1..Len(kept) |-> with_category(kept[k], "other")]

\* lines 108-135: funny rows, then capped financial rows, then other rows
build_curated(funny, financial, other) ==
  [k \in 1..Len(funny) |-> with_category(funny[k], "funny")]
    \o cap_financial(financial, 0, 0)
    \o keep_other(other)

\* line 147: [{"id": c["id"], "title": c["title"]} for c in curated]
for_worker(rows) ==
  [k \in 1..Len(rows) |-> [id |-> rows[k].id, title |-> rows[k].title]]

\* lines 97-99
SortCategories ==
  /\ cpc = "sort"
  /\ funny_series' = sort_by_abs_r(funny_series)
  /\ financial_series' = sort_by_abs_r(financial_series)
  /\ other_series' = sort_by_abs_r(other_series)
  /\ cpc' = "build"
  /\ UNCHANGED <<all_corr, reliable, deduped>>
  /\ UNCHANGED compute_vars
  /\ UNCHANGED output_vars
  /\ UNCHANGED discover_vars

\* lines 108-135
BuildCurated ==
  /\ cpc = "build"
  /\ curated' = build_curated(funny_series, financial_series, other_series)
  /\ cpc' = "final_sort"
  /\ UNCHANGED <<all_corr, reliable, deduped, funny_series, financial_series,
                 other_series>>
  /\ UNCHANGED compute_vars
  /\ UNCHANGED <<error, strict_correlations, strict_curated>>
  /\ UNCHANGED discover_vars

\* line 138
SortCurated ==
  /\ cpc = "final_sort"
  /\ curated' = sort_by_abs_r(curated)
  /\ cpc' = "save"
  /\ UNCHANGED <<all_corr, reliable, deduped, funny_series, financial_series,
                 other_series>>
  /\ UNCHANGED compute_vars
  /\ UNCHANGED <<error, strict_correlations, strict_curated>>
  /\ UNCHANGED discover_vars

\* lines 147-149
SaveCurated ==
  /\ cpc = "save"
  /\ strict_curated' = File(for_worker(curated))
  /\ cpc' = "done"
  /\ UNCHANGED <<all_corr, reliable, deduped, funny_series, financial_series,
                 other_series>>
  /\ UNCHANGED compute_vars
  /\ UNCHANGED <<curated, error, strict_correlations>>
  /\ UNCHANGED discover_vars

---------------------------------------------------------------------------
(* SpecRotation: one run of curate_series over input files built from the  *)
(* two capped families, a title of both families, and a pool of other rows *)

\* most "ICE BofA" rows / most CBOE-or-VIX rows in an input file
MaxIce == 6
MaxVix == 4

Digits == <<"1", "2", "3", "4", "5", "6", "7", "8", "9">>

SeriesIds ==
  <<"R01", "R02", "R03", "R04", "R05", "R06", "R07", "R08", "R09", "R10",
    "R11", "R12", "R13", "R14", "R15", "R16", "R17", "R18", "R19", "R20",
    "R21", "R22", "R23", "R24">>

Swap_ == <<" ", "S", "w", "a", "p", " ">>
Gold_ == <<" ", "G", "o", "l", "d", " ">>
Maine == <<"M", "a", "i", "n", "e">>
Rate == <<"R", "a", "t", "e">>

\* "ICE BofA Swap k": financial, first family
ice_title(k) == ICE_BofA \o Swap_ \o <<Digits[k]>>

\* "CBOE Gold k" / "VIX k": financial, second family
vix_title(k) ==
  IF k % 2 = 1 THEN CBOE \o Gold_ \o <<Digits[k]>>
  ELSE VIX \o <<" ", Digits[k]>>

\* "ICE BofA VIX": financial, both families
both_title == ICE_BofA \o <<" ">> \o VIX

\* rows of neither capped kind: titles (with their sample-count field)
\*   "ICE BofA 0", "CBOE 0"  no financial keyword, family names
\*   "Rate"                  no keyword at all
\*   "Maine"                 funny; once with n_dates = 19, once with the
\*                           legacy field n_aligned = 20
\*   "Maine CBOE"            funny, carries a family name
\*   "Gold"                  financial, no sample-count field
OtherTitles ==
  <<[title |-> ICE_BofA \o <<" ", "0">>, count |-> "n_dates", n |-> MIN_ALIGNED],
    [title |-> CBOE \o <<" ", "0">>, count |-> "n_dates", n |-> MIN_ALIGNED],
    [title |-> Rate, count |-> "n_dates", n |-> MIN_ALIGNED],
    [title |-> Maine, count |-> "n_dates", n |-> MIN_ALIGNED - 1],
    [title |-> Maine, count |-> "n_aligned", n |-> MIN_ALIGNED],
    [title |-> Maine \o <<" ">> \o CBOE, count |-> "n_dates", n |-> MIN_ALIGNED],
    [title |-> <<"G", "o", "l", "d">>, count |-> "none", n |-> 0]>>

\* abs_r (millionths) of the k-th row of a file
abs_r_at(pattern, k) ==
  CASE pattern = "falling" -> 900000 - 10000 * k
    [] pattern = "rising"  -> 310000 + 10000 * k
    [] pattern = "level"   -> 500000
    [] pattern = "weak"    -> 120000 + k

AbsRPatterns == {"falling", "rising", "level", "weak"}

\* a row of strict_correlations.json (current schema: n_dates; legacy schema:
\* n_aligned; or neither field)
CountedRow(k, title, abs_r, count, n) ==
  LET base == [id |-> SeriesIds[k], title |-> title, abs_r |-> abs_r]
  IN  CASE count = "n_dates"   -> [x \in {"id", "title", "abs_r", "n_dates"} |->
                                     IF x = "n_dates" THEN n ELSE base[x]]
        [] count = "n_aligned" -> [x \in {"id", "title", "abs_r", "n_aligned"} |->
                                     IF x = "n_aligned" THEN n ELSE base[x]]
        [] OTHER               -> base

\* the input file: n_ice rows of the first family, n_vix of the second, the
\* title of both families if with_both, then the chosen other rows
family_rows(n_ice, n_vix, with_both, others, pattern) ==
  LET titles ==
        [k \in 1..n_ice |-> [title |-> ice_title(k), count |-> "n_dates",
                             n |-> MIN_ALIGNED]]
        \o [k \in 1..n_vix |-> [title |-> vix_title(k), count |-> "n_dates",
                                n |-> MIN_ALIGNED]]
        \o (IF with_both
            THEN <<[title |-> both_title, count |-> "n_dates", n |-> MIN_ALIGNED]>>
            ELSE <<>>)
        \o SelectSeq(OtherTitles, LAMBDA o : o \in others)
  IN  [k \in 1..Len(titles) |->
         CountedRow(k, titles[k].title, abs_r_at(pattern, k),
                    titles[k].count, titles[k].n)]

\* the other rows that carry a family name or no keyword
FamilyOthers == {OtherTitles[k] : k \in 1..3}

\* input files mixing the capped families
LoadFamilyRows ==
  /\ cpc = "load"
  /\ \E n_ice \in 0..MaxIce, n_vix \in 0..MaxVix, with_both \in BOOLEAN,
        others \in SUBSET FamilyOthers, pattern \in AbsRPatterns :
       SetCorrelations(family_rows(n_ice, n_vix, with_both, others, pattern))

\* input files over the whole pool of other rows (all three sample-count
\* schemas, repeated titles)
LoadCountedRows ==
  /\ cpc = "load"
  /\ \E others \in SUBSET Range(OtherTitles), pattern \in AbsRPatterns :
       SetCorrelations(family_rows(0, 0, FALSE, others, pattern))

\* input files in which the title of both families ranks between the second
\* family and the first: n_vix rows of the second family, the title of both,
\* then n_ice rows of the first family
interleaved_rows(n_vix, n_ice, pattern) ==
  LET titles == [k \in 1..n_vix |-> vix_title(k)]
                \o <<both_title>>
                \o [k \in 1..n_ice |-> ice_title(k)]
  IN  [k \in 1..Len(titles) |->
         CountedRow(k, titles[k], abs_r_at(pattern, k), "n_dates", MIN_ALIGNED)]

LoadInterleavedRows ==
  /\ cpc = "load"
  /\ \E n_vix \in 0..MaxVix, n_ice \in 0..MaxIce, pattern \in {"falling", "level"} :
       SetCorrelations(interleaved_rows(n_vix, n_ice, pattern))

InitRotation == ComputeIdle /\ CurateInit /\ NoOutput /\ DiscoverIdle

NextRotation ==
  \/ LoadFamilyRows
  \/ LoadCountedRows
  \/ LoadInterleavedRows
  \/ FilterReliable
  \/ Dedupe
  \/ Classify
  \/ SortCategories
  \/ BuildCurated
  \/ SortCurated
  \/ SaveCurated

SpecRotation == InitRotation /\ [][NextRotation]_vars

---------------------------------------------------------------------------
(* compute_correlations.py: rounding of r, ranking, output files           *)

\* Non-negative integers of any size, as little-endian lists of base-10000
\* digits (the products below exceed the machine integers of the checker).
LimbBase == 10000

RECURSIVE to_limbs(_)
to_limbs(n) == IF n = 0 THEN <<>> ELSE <<n % LimbBase>> \o to_limbs(n \div LimbBase)

limb(a, k) == IF k <= Len(a) THEN a[k] ELSE 0

RECURSIVE carry_limbs(_, _)
carry_limbs(raw, carry) ==
  IF raw = <<>> THEN to_limbs(carry)
  ELSE LET v == Head(raw) + carry
       IN  <<v % LimbBase>> \o carry_limbs(Tail(raw), v \div LimbBase)

mul_limbs(a, b) ==
  IF a = <<>> \/ b = <<>> THEN <<>>
  ELSE carry_limbs(
         [k \in 1..(Len(a) + Len(b) - 1) |->
            SumSeq([p \in 1..Len(a) |->
              IF k + 1 - p >= 1 /\ k + 1 - p <= Len(b)
              THEN a[p] * b[k + 1 - p] ELSE 0])],
         0)

RECURSIVE cmp_limbs_from(_, _, _)
cmp_limbs_from(a, b, k) ==
  IF k = 0 THEN 0
  ELSE IF limb(a, k) > limb(b, k) THEN 1
  ELSE IF limb(a, k) < limb(b, k) THEN -1
  ELSE cmp_limbs_from(a, b, k - 1)

\* -1, 0, 1 as a < b, a = b, a > b
cmp_limbs(a, b) ==
  cmp_limbs_from(a, b, IF Len(a) > Len(b) THEN Len(a) ELSE Len(b))

\* largest m in lo..hi with m * m * den2 <= target (it holds for lo)
RECURSIVE isqrt_scaled(_, _, _, _)
isqrt_scaled(lo, hi, den2, target) ==
  IF lo >= hi THEN lo
  ELSE LET mid == (lo + hi + 1) \div 2
           m   == to_limbs(mid)
       IN  IF cmp_limbs(mul_limbs(mul_limbs(m, m), den2), target) <= 0
           THEN isqrt_scaled(mid, hi, den2, target)
           ELSE isqrt_scaled(lo, mid - 1, den2, target)

\* round(x, 6) for x = num / sqrt(den2), in millionths: round half to even
round6(x) ==
  LET a      == to_limbs(Abs(x.num))
      d      == to_limbs(x.den2)
      \* (10^6 * |num|)^2
      target == mul_limbs(mul_limbs(a, a), <<0, 0, 0, 1>>)
      m      == isqrt_scaled(0, 1000000, d, target)
      t      == to_limbs(2 * m + 1)
      half   == cmp_limbs(mul_limbs(mul_limbs(t, t), d),
                          mul_limbs(<<4>>, target))
      up     == half < 0 \/ (half = 0 /\ m % 2 = 1)
      mag    == IF up THEN m + 1 ELSE m
  IN  IF x.num < 0 THEN -mag ELSE mag

\* a result record as json.dump writes it: r and abs_r rounded to 6 decimals
json_row(rec) ==
  [id |-> rec.id, title |-> rec.title, r |-> round6(rec.r),
   abs_r |-> round6(rec.abs_r), n_dates |-> rec.n_dates,
   filled_dates |-> rec.filled_dates]

\* line 386: results.sort(key=lambda x: x["abs_r"], reverse=True)
rank_results(recs) ==
  sorted_desc(recs, [k \in 1..Len(recs) |-> round6(recs[k].abs_r)])

\* lines 386-404: rank, write strict_correlations.json and strict_curated.json
SaveResults ==
  /\ pc = "loop"
  /\ i = Len(filtered)
  /\ results' = rank_results(results)
  /\ strict_correlations' =
       File([k \in 1..Len(results) |-> json_row(results'[k])])
  /\ strict_curated' = File(for_worker(results'))
  /\ pc' = "done"
  /\ UNCHANGED <<all_series, exclude_from_category, filtered, excluded_examples,
                 sp500, i, real_obs, obs, missing_dates, ff_invoked, sp_vals,
                 other_vals, r, counters>>
  /\ UNCHANGED curate_vars
  /\ UNCHANGED <<curated, error>>
  /\ UNCHANGED discover_vars

\* swallows the exception and goes on with the next candidate
CandidateFails_swallowed ==
  /\ pc = "loop"
  /\ i < Len(filtered)
  /\ error' = filtered[i + 1].id
  /\ i' = i + 1
  /\ UNCHANGED <<pc, all_series, exclude_from_category, filtered,
                 excluded_examples, sp500, real_obs, obs, missing_dates,
                 ff_invoked, sp_vals, other_vals, r, results, counters>>
  /\ UNCHANGED curate_vars
  /\ UNCHANGED <<curated, strict_correlations, strict_curated>>
  /\ UNCHANGED discover_vars

\* lines 335-378: fetching or processing the candidate raises; the handler
\* re-raises as RuntimeError("Failed while processing series {sid}: ...")
CandidateFails ==
  /\ pc = "loop"
  /\ i < Len(filtered)
  /\ error' = filtered[i + 1].id
  /\ pc' = "aborted"
  /\ UNCHANGED <<all_series, exclude_from_category, filtered, excluded_examples,
                 sp500, i, real_obs, obs, missing_dates, ff_invoked, sp_vals,
                 other_vals, r, results, counters>>
  /\ UNCHANGED curate_vars
  /\ UNCHANGED <<curated, strict_correlations, strict_curated>>
  /\ UNCHANGED discover_vars

\* lines 326-340 with the fetch drawing from `pool`
FetchCandidateIn(pool) ==
  /\ pc = "loop"
  /\ i < Len(filtered)
  /\ \E o \in pool :
       /\ real_obs' = o
       /\ obs' = Some(o)
       /\ missing_dates' = sp500_dates \ dates_of(o)
  /\ ff_invoked' = FALSE
  /\ pc' = "overlap"
  /\ UNCHANGED <<all_series, exclude_from_category, filtered, excluded_examples,
                 sp500, i, sp_vals, other_vals, r, results, counters>>
  /\ UNCHANGED curate_vars
  /\ UNCHANGED output_vars
  /\ UNCHANGED discover_vars

---------------------------------------------------------------------------
(* SpecBatch: one whole run of compute_correlations over catalogs of up to *)
(* two candidates, with a 60-date benchmark window (and shorter ones)      *)

\* calendar days of the long window: 60 benchmark dates
BatchWindow == 82

\* 9, 10 and 60 benchmark dates, or no observations at all
BatchBenchmarks ==
  {observations_on({d \in 1..w : trading_day(d)}, "ramp") :
     w \in {11, 12, BatchWindow}} \cup {<<>>}

\* the n latest dates of a set of dates
RECURSIVE latest(_, _)
latest(days, n) ==
  IF n = 0 \/ days = {} THEN {}
  ELSE LET d == CHOOSE x \in days : \A y \in days : y <= x
       IN  {d} \cup latest(days \ {d}, n - 1)

\* what fetch_observations(sid, window_start) returns for the candidates of a
\* batch: every benchmark date (rising, falling, or one of two constants),
\* all but two inner dates, all but the ten latest dates, all but the first
BatchCandidates(bench) ==
  LET bd == dates_of(bench)
  IN  {observations_on(bd, shape) : shape \in {"ramp", "down", "flat8", "flat11"}}
      \cup {observations_on(bd \ {4, 5}, "saw"),
            observations_on(bd \ latest(bd, 10), "saw"),
            observations_on(bd \ {1}, "saw")}

Federal_Funds == <<"F", "e", "d", "e", "r", "a", "l", " ", "F", "u", "n", "d", "s">>

\* catalogs: empty; one or two plain series; a plain series among a series
\* of the static id list, one of the category set, one with a disqualifying
\* title
BatchCatalogs ==
  {<<>>,
   <<S("DFF", Federal_Funds)>>,
   <<S("DFF", Federal_Funds), S("MEUR", Maine)>>,
   <<S("VIXCLS", Rate), S("DFF", Federal_Funds), S("DJIA", Maine),
     S("XIV", <<"V", "i", "x">>)>>}

InitBatch == ComputeInit /\ CurateIdle /\ NoOutput /\ DiscoverIdle

NextBatch ==
  \/ FetchCategory(CategorySets)
  \/ LoadCatalog(BatchCatalogs)
  \/ FilterCatalog
  \/ FetchBenchmark(BatchBenchmarks)
  \/ FetchCandidateIn(BatchCandidates(sp500))
  \/ CandidateFails
  \/ OverlapCheck
  \/ Fill
  \/ Align
  \/ Score
  \/ SaveResults

SpecBatch == InitBatch /\ [][NextBatch]_vars

---------------------------------------------------------------------------
(* SpecTools: the two tools run one after the other, in any order and any  *)
(* number of times; the files stay, the memory of a finished process does  *)
(* not                                                                     *)

\* no process is running
NoToolRunning ==
  /\ pc \in {"idle", "done", "aborted"}
  /\ cpc \in {"idle", "done", "aborted"}

\* python3 compute_correlations.py: a new process (line 243)
StartCompute ==
  /\ NoToolRunning
  /\ all_series' = <<>>
  /\ exclude_from_category' = {}
  /\ filtered' = <<>>
  /\ excluded_examples' = <<>>
  /\ sp500' = <<>>
  /\ i' = 0
  /\ pc' = "category"
  /\ real_obs' = <<>>
  /\ obs' = None
  /\ missing_dates' = {}
  /\ ff_invoked' = FALSE
  /\ sp_vals' = <<>>
  /\ other_vals' = <<>>
  /\ r' = NaN
  /\ results' = <<>>
  /\ counters' = [perfect_overlap |-> 0, partial_overlap |-> 0, no_overlap |-> 0]
  /\ error' = ""
  /\ all_corr' = <<>>
  /\ cpc' = "idle"
  /\ reliable' = <<>>
  /\ deduped' = <<>>
  /\ funny_series' = <<>>
  /\ financial_series' = <<>>
  /\ other_series' = <<>>
  /\ curated' = <<>>
  /\ UNCHANGED <<strict_correlations, strict_curated>>
  /\ UNCHANGED discover_vars

\* python3 curate_series.py: a new process; lines 15-25: without an input file
\* it exits, otherwise all_corr = json.load(f)
StartCurate ==
  /\ NoToolRunning
  /\ all_series' = <<>>
  /\ exclude_from_category' = {}
  /\ filtered' = <<>>
  /\ excluded_examples' = <<>>
  /\ sp500' = <<>>
  /\ i' = 0
  /\ pc' = "idle"
  /\ real_obs' = <<>>
  /\ obs' = None
  /\ missing_dates' = {}
  /\ ff_invoked' = FALSE
  /\ sp_vals' = <<>>
  /\ other_vals' = <<>>
  /\ r' = NaN
  /\ results' = <<>>
  /\ counters' = [perfect_overlap |-> 0, partial_overlap |-> 0, no_overlap |-> 0]
  /\ error' = ""
  /\ IF strict_correlations.exists
     THEN /\ all_corr' = strict_correlations.rows
          /\ cpc' = "reliable"
     ELSE /\ all_corr' = <<>>
          /\ cpc' = "aborted"
  /\ reliable' = <<>>
  /\ deduped' = <<>>
  /\ funny_series' = <<>>
  /\ financial_series' = <<>>
  /\ other_series' = <<>>
  /\ curated' = <<>>
  /\ UNCHANGED <<strict_correlations, strict_curated>>
  /\ UNCHANGED discover_vars

\* 10 or 20 benchmark dates
ToolBenchmarks ==
  {observations_on({d \in 1..w : trading_day(d)}, "ramp") : w \in {12, 26}}

\* a candidate that follows the benchmark, one that does not, a constant one
ToolCandidates(bench) ==
  {observations_on(dates_of(bench), shape) : shape \in {"ramp", "saw", "flat8"}}

ToolCatalogs == {<<S("DFF", Federal_Funds), S("RATE", Rate)>>}

InitTools == ComputeIdle /\ CurateIdle /\ NoOutput /\ DiscoverIdle

NextTools ==
  \/ StartCompute
  \/ FetchCategory({{}})
  \/ LoadCatalog(ToolCatalogs)
  \/ FilterCatalog
  \/ FetchBenchmark(ToolBenchmarks)
  \/ FetchCandidateIn(ToolCandidates(sp500))
  \/ OverlapCheck
  \/ Fill
  \/ Align
  \/ Score
  \/ SaveResults
  \/ StartCurate
  \/ FilterReliable
  \/ Dedupe
  \/ Classify
  \/ SortCategories
  \/ BuildCurated
  \/ SortCurated
  \/ SaveCurated

SpecTools == InitTools /\ [][NextTools]_vars

---------------------------------------------------------------------------
(* fred_get: one call is a loop of at most `retries` requests.  The three  *)
(* tools carry the same function; line numbers are those of                *)
(* compute_correlations.py.  The throttle and the back-off sleeps only     *)
(* pass time and are not modelled.                                         *)

\* largest retries argument / calls stop being started at this many requests
MaxRetries == 3
MaxApiAttempts == 4

\* the payload's error_code: whether Python takes it as true, and str() of it
\*   absent, 0, 429 (number or string), 400
ErrorCodes ==
  {[truthy |-> FALSE, text |-> "None"], [truthy |-> FALSE, text |-> "0"],
   [truthy |-> TRUE, text |-> "429"], [truthy |-> TRUE, text |-> "400"]}

NoErrorCode == [truthy |-> FALSE, text |-> "None"]

Statuses == {200, 201, 404, 429, 499, 500, 599, 600}

\* what requests.get produces: a response (status and JSON payload), a
\* timeout, a connection error, or another exception of requests
Responses ==
  {[kind |-> "response", status |-> 200, error_code |-> e] : e \in ErrorCodes}
  \cup {[kind |-> "response", status |-> s, error_code |-> NoErrorCode] :
          s \in Statuses \ {200}}
  \cup {[kind |-> k, status |-> 0, error_code |-> NoErrorCode] :
          k \in {"timeout", "connection_error", "other_exception"}}

\* retries every status but 200
outcome_retry_all(x) ==
  CASE x.kind \in {"timeout", "connection_error"} -> "retry"
    [] x.kind = "other_exception" -> "raise"
    [] x.status # 200 -> "retry"
    [] x.error_code.truthy /\ x.error_code.text = "429" -> "retry"
    [] x.error_code.truthy -> "raise"
    [] OTHER -> "return"

\* lines 119-152: what one pass of the loop body ends with
outcome(x) ==
  CASE x.kind \in {"timeout", "connection_error"} -> "retry"   \* line 148
    [] x.kind = "other_exception" -> "raise"                   \* not caught
    [] x.status = 429 -> "retry"                               \* line 123
    [] 500 <= x.status /\ x.status < 600 -> "retry"            \* line 129
    [] x.status # 200 -> "raise"                               \* line 135
    [] x.error_code.truthy /\ x.error_code.text = "429" -> "retry"  \* line 139
    [] x.error_code.truthy -> "raise"                          \* line 145
    [] OTHER -> "return"                                       \* line 147

\* a caller calls fred_get(endpoint, params, retries)
CallFredGet ==
  /\ fpc \in {"idle", "returned", "raised"}
  /\ api_attempts < MaxApiAttempts
  /\ \E n \in 0..MaxRetries : retries' = n
  /\ attempt' = 0
  /\ attempts_before' = api_attempts
  /\ resp' = None
  /\ fpc' = "loop"
  /\ UNCHANGED <<api_attempts, api_successes, api_retries>>
  /\ UNCHANGED <<compute_vars, curate_vars, output_vars, walk_vars>>

\* lines 118-152: one pass of `for attempt in range(retries)`
Request ==
  /\ fpc = "loop"
  /\ attempt < retries
  /\ \E x \in Responses :
       /\ resp' = x
       /\ api_attempts' = api_attempts + 1
       /\ CASE outcome(x) = "retry" ->
                 /\ api_retries' = api_retries + 1
                 /\ attempt' = attempt + 1
                 /\ fpc' = "loop"
                 /\ UNCHANGED api_successes
            [] outcome(x) = "return" ->
                 /\ api_successes' = api_successes + 1
                 /\ fpc' = "returned"
                 /\ UNCHANGED <<api_retries, attempt>>
            [] OTHER ->
                 /\ fpc' = "raised"
                 /\ UNCHANGED <<api_successes, api_retries, attempt>>
  /\ UNCHANGED <<retries, attempts_before>>
  /\ UNCHANGED <<compute_vars, curate_vars, output_vars, walk_vars>>

\* line 153: the loop ran out, raise RuntimeError("... failed after N retries")
Exhausted ==
  /\ fpc = "loop"
  /\ attempt >= retries
  /\ fpc' = "raised"
  /\ UNCHANGED <<api_attempts, api_successes, api_retries, retries, attempt,
                 attempts_before, resp>>
  /\ UNCHANGED <<compute_vars, curate_vars, output_vars, walk_vars>>

InitFredGet == ComputeIdle /\ CurateIdle /\ NoOutput /\ DiscoverIdle

NextFredGet ==
  \/ CallFredGet
  \/ Request
  \/ Exhausted

\* requests.get(..., timeout=30) and time.sleep(wait) come back, so a call
\* that is in its loop takes its next step
SpecFredGet ==
  InitFredGet /\ [][NextFredGet]_vars /\ WF_vars(Request) /\ WF_vars(Exhausted)

---------------------------------------------------------------------------
(* discover_all_fred.py, full-tree mode: walk_category_tree.  The server   *)
(* is a finite category graph; every category has a list of child          *)
(* categories and a list of series.                                        *)

\* lines 55-59
SKIP_CATEGORY_IDS == {32255, 32356, 33913}

\* line 204: 'limit': 1000
PageLimit == 1000

\* lines 196-206: one page of category/series filtered to frequency Daily
series_page(cat_id, offset) ==
  LET daily == SelectSeq(fred.series[cat_id], LAMBDA s : s.frequency = "Daily")
      last  == IF offset + PageLimit < Len(daily) THEN offset + PageLimit
                                                   ELSE Len(daily)
  IN  SubSeq(daily, offset + 1, last)

\* lines 193-220: get_series_in_category, page after page until a short one
RECURSIVE series_from(_, _)
series_from(cat_id, offset) ==
  LET batch == series_page(cat_id, offset)
  IN  IF Len(batch) < PageLimit THEN batch
      ELSE batch \o series_from(cat_id, offset + PageLimit)

get_series_in_category(cat_id) == series_from(cat_id, 0)

\* lines 188-190
get_child_categories(cat_id) == fred.children[cat_id]

\* the requests get_series_in_category sends: one per page
RECURSIVE series_requests(_, _)
series_requests(cat_id, offset) ==
  <<[endpoint |-> "category/series", category_id |-> cat_id]>>
    \o (IF Len(series_page(cat_id, offset)) < PageLimit THEN <<>>
        ELSE series_requests(cat_id, offset + PageLimit))

children_request(cat_id) ==
  [endpoint |-> "category/children", category_id |-> cat_id]

\* a frame of walk_category_tree: at its first line, or inside the loop over
\* children with the children still to come
Frame(cat_id) == [root_id |-> cat_id, at |-> "entry", children |-> <<>>]

Pop == SubSeq(stack, 1, Len(stack) - 1)
Top == stack[Len(stack)]

\* the frame below takes over, or the outermost call has returned
Return ==
  /\ stack' = Pop
  /\ wpc' = IF Len(stack) = 1 THEN "returned" ELSE "walking"

\* line 225 taken: visited or skipped, return at once
SkipCategory ==
  /\ wpc = "walking"
  /\ Top.at = "entry"
  /\ Top.root_id \in visited_cats \/ Top.root_id \in SKIP_CATEGORY_IDS
  /\ Return
  /\ UNCHANGED <<fred, walk_root, walk_all_series, visited_cats, requested>>
  /\ UNCHANGED <<compute_vars, curate_vars, output_vars, api_vars>>

\* lines 227-241: mark visited, ask for the children; a branch node goes into
\* its loop, a leaf node fetches its series and returns
EnterCategory ==
  /\ wpc = "walking"
  /\ Top.at = "entry"
  /\ Top.root_id \notin visited_cats
  /\ Top.root_id \notin SKIP_CATEGORY_IDS
  /\ visited_cats' = visited_cats \cup {Top.root_id}
  /\ LET children == get_child_categories(Top.root_id)
     IN  IF children # <<>>
         THEN /\ stack' = Pop \o <<[Top EXCEPT !.at = "loop", !.children = children]>>
              /\ wpc' = "walking"
              /\ requested' = requested \o <<children_request(Top.root_id)>>
              /\ UNCHANGED walk_all_series
         ELSE LET series == get_series_in_category(Top.root_id)
              IN  /\ walk_all_series' =
                       walk_all_series \cup {series[k].id : k \in 1..Len(series)}
                  /\ requested' = requested \o <<children_request(Top.root_id)>>
                                    \o series_requests(Top.root_id, 0)
                  /\ Return
  /\ UNCHANGED <<fred, walk_root>>
  /\ UNCHANGED <<compute_vars, curate_vars, output_vars, api_vars>>

\* lines 227-236 when fred_get raises: the children request (or, at a leaf,
\* the first series request) fails and the exception leaves the walk
RequestRaises ==
  /\ wpc = "walking"
  /\ Top.at = "entry"
  /\ Top.root_id \notin visited_cats
  /\ Top.root_id \notin SKIP_CATEGORY_IDS
  /\ visited_cats' = visited_cats \cup {Top.root_id}
  /\ \E at_series \in BOOLEAN :
       /\ at_series => get_child_categories(Top.root_id) = <<>>
       /\ requested' = requested \o <<children_request(Top.root_id)>>
            \o (IF at_series
                THEN <<[endpoint |-> "category/series", category_id |-> Top.root_id]>>
                ELSE <<>>)
  /\ stack' = <<>>
  /\ wpc' = "raised"
  /\ UNCHANGED <<fred, walk_root, walk_all_series>>
  /\ UNCHANGED <<compute_vars, curate_vars, output_vars, api_vars>>

\* lines 233-234: the next child
Descend ==
  /\ wpc = "walking"
  /\ Top.at = "loop"
  /\ Top.children # <<>>
  /\ stack' = Pop \o <<[Top EXCEPT !.children = Tail(@)]>>
                  \o <<Frame(Head(Top.children).id)>>
  /\ UNCHANGED <<fred, walk_root, walk_all_series, visited_cats, wpc, requested>>
  /\ UNCHANGED <<compute_vars, curate_vars, output_vars, api_vars>>

\* line 233: the loop over the children is over
LoopDone ==
  /\ wpc = "walking"
  /\ Top.at = "loop"
  /\ Top.children = <<>>
  /\ Return
  /\ UNCHANGED <<fred, walk_root, walk_all_series, visited_cats, requested>>
  /\ UNCHANGED <<compute_vars, curate_vars, output_vars, api_vars>>

\* categories of the server besides the skipped one: 0 .. MaxCats - 1
MaxCats == 3
PlainCats == 0..(MaxCats - 1)
Cats == PlainCats \cup {32255}

\* most children of one category
MaxChildren == 2

\* the elements of a set of category ids as the server lists them
RECURSIVE child_list(_)
child_list(ids) ==
  IF ids = {} THEN <<>>
  ELSE LET least == CHOOSE c \in ids : \A d \in ids : c <= d
       IN  <<[id |-> least]>> \o child_list(ids \ {least})

ChildSets == {ids \in SUBSET Cats : Cardinality(ids) <= MaxChildren}

\* every graph over Cats (cycles, self loops and shared children included);
\* the skipped category 32255 has category 2 below it
Graphs(child_sets) ==
  {[c \in Cats |-> IF c = 32255 THEN child_list({2}) ELSE child_list(g[c])] :
     g \in [PlainCats -> child_sets]}

Series(id, frequency) == [id |-> id, frequency |-> frequency]

\* the series of the categories:
\*   "own"     every category has one daily and one monthly series of its own
\*   "shared"  series 1 is in every category, beside one of its own
\*   "pages"   category 1 fills exactly one page, category 2 one page and
\*             one series more
SeriesLayouts ==
  {[c \in Cats |-> <<Series(10 + c, "Daily"), Series(20 + c, "Monthly")>>],
   [c \in Cats |-> <<Series(1, "Daily"), Series(10 + c, "Daily")>>],
   [c \in Cats |->
      CASE c = 1 -> [k \in 1..PageLimit |-> Series(1000 + k, "Daily")]
        [] c = 2 -> [k \in 1..(PageLimit + 1) |-> Series(3000 + k, "Daily")]
        [] OTHER -> <<Series(10 + c, "Daily")>>]}

\* lines 256-264: the ids of all_daily_series.json, or nothing without the file
ExistingSeries == {{}, {1, 77}}

\* lines 256-270: walk_category_tree(0, all_series, visited_cats) with the
\* existing series and no visited category; also started at the skipped
\* category
StartWalk ==
  /\ wpc = "idle"
  /\ \E children \in Graphs(ChildSets), series \in SeriesLayouts, root \in {0, 32255},
        existing \in ExistingSeries :
       /\ fred' = [children |-> children, series |-> series]
       /\ walk_root' = root
       /\ stack' = <<Frame(root)>>
       /\ walk_all_series' = existing
  /\ visited_cats' = {}
  /\ requested' = <<>>
  /\ wpc' = "walking"
  /\ UNCHANGED <<compute_vars, curate_vars, output_vars, api_vars>>

InitWalk == ComputeIdle /\ CurateIdle /\ NoOutput /\ DiscoverIdle

NextWalk ==
  \/ StartWalk
  \/ SkipCategory
  \/ EnterCategory
  \/ RequestRaises
  \/ Descend
  \/ LoopDone

SpecWalk == InitWalk /\ [][NextWalk]_vars

---------------------------------------------------------------------------
(* Properties of the exclusion filter (SpecExclude)                        *)

\* the lower-cased title contains a disqualifying keyword
TitleHasKeyword(s) ==
  \E n \in 1..Len(EXCLUDE_KEYWORDS) :
    LET kw == EXCLUDE_KEYWORDS[n] IN
    \E p \in 1..Len(s.title) :
      /\ p + Len(kw) - 1 <= Len(s.title)
      /\ \A k \in 1..Len(kw) : lower_char(s.title[p + k - 1]) = kw[k]

\* C1 as stated: is_excluded(s) holds iff s.id is in the exclusion id set
\* augmented with the category-membership ids, or the title has a keyword.
\* (excluded_examples lists the catalog entries is_excluded accepts.)
C1_Original ==
  pc = "benchmark" =>
    \A k \in 1..Len(all_series) :
      LET s == all_series[k] IN
      (s \in Range(excluded_examples)) <=>
        (s.id \in EXCLUDE_IDS \cup exclude_from_category \/ TitleHasKeyword(s))

\* C1 amended: is_excluded(s) holds iff s.id is in the static list EXCLUDE_IDS or
\* the lower-cased title has a keyword; the category-membership ids are tested
\* by the catalog filter, which keeps s iff s.id is in neither id set and
\* is_excluded(s) is false.
C1_StaticIdsOrKeyword ==
  pc = "benchmark" =>
    \A k \in 1..Len(all_series) :
      LET s == all_series[k] IN
      /\ (s \in Range(excluded_examples)) <=>
           (s.id \in EXCLUDE_IDS \/ TitleHasKeyword(s))
      /\ (s \in Range(filtered)) <=>
           ~(s.id \in EXCLUDE_IDS \cup exclude_from_category \/ TitleHasKeyword(s))

\* C1 witness: a title that only matches after lower-casing ("ViX ") under an id
\* that is in no id set is reported excluded and filtered out
C1_Witness ==
  /\ pc = "benchmark"
  /\ Len(all_series) = 1
  /\ all_series[1].id = "DFF"
  /\ all_series[1].title = <<"V", "i", "X", " ">>
  /\ exclude_from_category = {"SP500", "DJIA"}
  /\ excluded_examples = all_series
  /\ filtered = <<>>

---------------------------------------------------------------------------
(* Properties of the aligner and the scorer (SpecAlign)                    *)

real_dates == dates_of(real_obs)
real_map == dict_of(real_obs)

\* more benchmark dates are missing than floor(0.05 * |D|) allows
\* (m > floor(n/20) is m > n/20 for integers)
TooManyMissing == 20 * Cardinality(missing_dates) > Cardinality(sp500_dates)

\* some missing date lies before every real observation of the candidate
LeadingGap == \E d \in missing_dates : \A e \in real_dates : d < e

is_constant(a) == \A k \in 1..Len(a) : a[k] = a[1]

\* C2: a candidate lacking more than floor((1 - 0.95) * |D|) benchmark dates is
\* rejected at the overlap check: forward_fill is not invoked, its observations
\* stay as fetched (no date filled) and no result record is appended.
C2_RejectedWithoutFill ==
  [][(pc = "overlap" /\ TooManyMissing) =>
       /\ pc' = "loop"
       /\ i' = i + 1
       /\ ~ff_invoked'
       /\ obs' = Some(real_obs)
       /\ results' = results
       /\ counters'.partial_overlap = counters.partial_overlap + 1]_vars

\* C2 witness: a 40-date benchmark, exactly 3 dates missing (one more than the
\* 2 allowed), candidate rejected and nothing filled
C2_Witness ==
  /\ pc = "loop"
  /\ i = 1
  /\ Cardinality(sp500_dates) = 40
  /\ Cardinality(missing_dates) = 3
  /\ ~ff_invoked
  /\ obs = Some(real_obs)
  /\ results = <<>>

\* C3: whenever a missing date precedes the candidate's earliest real
\* observation, forward_fill returns None and the candidate is rejected without
\* a result record; and no filled list ever holds a date that precedes every
\* real observation.
C3_NoFillBeforeHistory ==
  /\ [](pc = "overlap" /\ LeadingGap =>
          forward_fill(real_obs, missing_dates).is_none)
  /\ [](~obs.is_none =>
          \A d \in dates_of(obs.val) : \E e \in real_dates : e <= d)
  /\ [][(pc = "fill" /\ LeadingGap) =>
          /\ obs'.is_none
          /\ pc' = "loop"
          /\ results' = results]_vars

\* C3 witness: within the allowance (1 of 20 dates missing), the missing date is
\* the first benchmark date, the candidate has later observations, and the fill
\* was attempted and refused
C3_Witness ==
  /\ pc = "loop"
  /\ i = 1
  /\ ff_invoked
  /\ obs.is_none
  /\ real_obs # <<>>
  /\ missing_dates = {1}
  /\ Cardinality(sp500_dates) = 20
  /\ results = <<>>

\* C4: for an accepted candidate the aligned value on benchmark date d is the
\* real observation on d when there is one, and otherwise the value of the
\* latest real observation dated strictly before d.
C4_AlignedValuesAreLOCF ==
  pc = "score" =>
    LET dates == sorted_dates(sp500_dates) IN
    /\ Len(other_vals) = Len(dates)
    /\ \A k \in 1..Len(dates) :
         LET d == dates[k] IN
         IF d \in real_dates
         THEN other_vals[k] = real_map[d]
         ELSE \E e \in real_dates :
                /\ e < d
                /\ \A f \in real_dates : f < d => f <= e
                /\ other_vals[k] = real_map[e]

\* C4 witness: two adjacent benchmark dates (days 4 and 5) are filled from day 3
\* while the following days carry different real values
C4_Witness ==
  /\ pc = "score"
  /\ missing_dates = {4, 5}
  /\ 3 \in real_dates /\ 8 \in real_dates
  /\ other_vals[4] = real_map[3]
  /\ other_vals[5] = real_map[3]
  /\ real_map[8] # real_map[3]
  /\ other_vals[6] = real_map[8]

\* C5: a result record's filled_dates is exactly the set of benchmark dates the
\* candidate had no real observation for, so it is a subset of D_bench with at
\* most floor((1 - 0.95) * |D_bench|) entries.
C5_FilledDatesExact ==
  [][results' # results =>
       /\ Len(results') = Len(results) + 1
       /\ SubSeq(results', 1, Len(results)) = results
       /\ LET rec == results'[Len(results')] IN
          /\ Range(rec.filled_dates) = sp500_dates \ real_dates
          /\ Len(rec.filled_dates) = Cardinality(sp500_dates \ real_dates)
          /\ Range(rec.filled_dates) \subseteq sp500_dates
          /\ 20 * Len(rec.filled_dates) <= Cardinality(sp500_dates)]_vars

\* C5 witness: a record whose two filled dates use up the allowance of a 40-date
\* benchmark
C5_Witness ==
  /\ Len(results) = 1
  /\ results[1].filled_dates = <<2, 8>>
  /\ results[1].n_dates = 40
  /\ real_dates = sp500_dates \ {2, 8}

\* C6: pearson_r returns NaN exactly when fewer than 10 samples are aligned or
\* one of the two sequences is constant, and every result record carries a
\* defined r over at least 10 samples.
C6_UndefinedIffDegenerate ==
  /\ (pc # "score" /\ sp_vals # <<>>) =>
       (r.nan <=> \/ Len(sp_vals) < 10
                  \/ is_constant(sp_vals)
                  \/ is_constant(other_vals))
  /\ \A k \in 1..Len(results) :
       ~results[k].r.nan /\ results[k].n_dates >= 10

\* C7: for a non-constant x of at least 10 samples, score(x, x) = 1,
\* score(x, -x) = -1, score(x, c) is undefined for a constant c, and a defined
\* score lies in [-1, 1].
C7_ScoreIdentities ==
  (pc # "score" /\ Len(sp_vals) >= 10 /\ ~is_constant(sp_vals)) =>
    /\ other_vals = sp_vals =>
         (~r.nan /\ r.num > 0 /\ r.num * r.num = r.den2)
    /\ other_vals = [k \in 1..Len(sp_vals) |-> -sp_vals[k]] =>
         (~r.nan /\ r.num < 0 /\ r.num * r.num = r.den2)
    /\ is_constant(other_vals) => r.nan
    /\ ~r.nan => r.num * r.num <= r.den2

---------------------------------------------------------------------------
(* Properties of the curation steps (SpecCurate)                           *)

\* C8: deduplication by title is idempotent: applied to its own output it
\* returns that output unchanged.
C8_DedupeIdempotent ==
  cpc \in {"classify", "sort"} => dedupe(deduped) = deduped

\* C8 witness: an input with three rows of one title was reduced to one row
C8_Witness ==
  /\ cpc = "classify"
  /\ Len(reliable) = 3
  /\ \A k \in 1..3 : reliable[k].title = reliable[1].title
  /\ Len(deduped) = 1

\* the rows of `rows` at the positions in `keep`, in order
RECURSIVE RowsAt(_, _, _)
RowsAt(rows, keep, k) ==
  IF k > Len(rows) THEN <<>>
  ELSE (IF k \in keep THEN <<rows[k]>> ELSE <<>>) \o RowsAt(rows, keep, k + 1)

\* C9: the deduplicated list holds, for each distinct title, exactly the first
\* row of the input that carries that exact title, in input order, and no two
\* of its rows share a title.
C9_FirstOccurrenceKept ==
  cpc \in {"classify", "sort"} =>
    LET first == {k \in 1..Len(reliable) :
                    \A j \in 1..(k - 1) : reliable[j].title # reliable[k].title}
    IN  /\ deduped = RowsAt(reliable, first, 1)
        /\ \A a, b \in 1..Len(deduped) :
             a # b => deduped[a].title # deduped[b].title

\* C9 witness: "Maine", "maine", "Maine" in this order: the case variant is kept,
\* the exact repeat is dropped
C9_Witness ==
  /\ cpc = "classify"
  /\ Len(reliable) = 3
  /\ reliable[1].title = <<"M", "a", "i", "n", "e">>
  /\ reliable[2].title = <<"m", "a", "i", "n", "e">>
  /\ reliable[3].title = <<"M", "a", "i", "n", "e">>
  /\ deduped = <<reliable[1], reliable[2]>>

HasHumorKeyword(c) ==
  \E n \in 1..Len(funny_keywords) : Contains(lower(c.title), funny_keywords[n])

HasFinanceKeyword(c) ==
  \E n \in 1..Len(interesting) : Contains(c.title, interesting[n])

\* C10: each deduplicated entry is in exactly one of funny / financial / other
\* or in none, by first-match priority: funny when it has a humor keyword and
\* abs_r > 0.15; else financial when it has a finance keyword and abs_r > 0.10;
\* else other when abs_r > 0.30; else dropped.
C10_FirstMatchCategory ==
  cpc = "sort" =>
    /\ \A k \in 1..Len(deduped) :
         LET c   == deduped[k]
             fun == HasHumorKeyword(c) /\ c.abs_r > 150000
             fin == ~fun /\ HasFinanceKeyword(c) /\ c.abs_r > 100000
             oth == ~fun /\ ~fin /\ c.abs_r > 300000
         IN  /\ (c \in Range(funny_series)) <=> fun
             /\ (c \in Range(financial_series)) <=> fin
             /\ (c \in Range(other_series)) <=> oth
    /\ Range(funny_series) \cup Range(financial_series) \cup Range(other_series)
         \subseteq Range(deduped)
    /\ Len(funny_series) + Len(financial_series) + Len(other_series)
         <= Len(deduped)

\* C10 witness: a title with a humor and a finance keyword and abs_r = 0.15 falls
\* through to financial
C10_Witness ==
  /\ cpc = "sort"
  /\ Len(deduped) = 1
  /\ deduped[1].title = <<"M", "a", "i", "n", "e", " ", "G", "o", "l", "d">>
  /\ deduped[1].abs_r = 150000
  /\ financial_series = deduped
  /\ funny_series = <<>>
  /\ other_series = <<>>

---------------------------------------------------------------------------
(* Properties of the rotation list (SpecRotation)                          *)

\* the rotation list exists (steps 4 has run)
Built == cpc \in {"final_sort", "save", "done"}

\* the rotation list is final (the re-sort has run)
Ranked == cpc \in {"save", "done"}

InFamilyIce(c) == Contains(c.title, ICE_BofA)
InFamilyVix(c) == Contains(c.title, CBOE) \/ Contains(c.title, VIX)

CountRows(rows, cat, ice) ==
  Cardinality({k \in 1..Len(rows) :
    /\ rows[k].category = cat
    /\ IF ice THEN InFamilyIce(rows[k]) ELSE InFamilyVix(rows[k])})

CountFamily(rows, ice) ==
  Cardinality({k \in 1..Len(rows) :
    IF ice THEN InFamilyIce(rows[k]) ELSE InFamilyVix(rows[k])})

\* C11: among the entries of the rotation list classified financial, at most
\* 5 have a title containing "ICE BofA" and at most 3 have a title containing
\* "CBOE" or "VIX".
C11_FamilyCaps ==
  Built =>
    /\ CountRows(curated, "financial", TRUE) <= 5
    /\ CountRows(curated, "financial", FALSE) <= 3

\* both caps have cut rows off: more rows of each family were classified
\* financial than the list holds
C11_Witness ==
  /\ cpc = "done"
  /\ CountFamily(financial_series, TRUE) > 5
  /\ CountFamily(financial_series, FALSE) > 3
  /\ CountRows(curated, "financial", TRUE) = 5
  /\ CountRows(curated, "financial", FALSE) = 3

HasId(rows, id) == \E k \in 1..Len(rows) : rows[k].id = id

\* the family of c ("ICE BofA" or "CBOE") has an entry kept as funny or
\* financial
Represented(c) ==
  \E k \in 1..Len(curated) :
    /\ curated[k].category \in {"funny", "financial"}
    /\ \/ Contains(c.title, ICE_BofA) /\ Contains(curated[k].title, ICE_BofA)
       \/ Contains(c.title, CBOE) /\ Contains(curated[k].title, CBOE)

\* C12: an entry classified other is left out of the rotation list if and
\* only if its title contains "ICE BofA" or "CBOE" and that family has an
\* entry kept in the financial or funny category.
C12_OtherDroppedIffRepresented ==
  Built =>
    \A k \in 1..Len(other_series) :
      ~HasId(curated, other_series[k].id) <=> Represented(other_series[k])

IsRankedDesc(rows) ==
  \A k \in 1..(Len(rows) - 1) : rows[k].abs_r >= rows[k + 1].abs_r

\* both lists hold the same rows, each as often as the other
SameRows(a, b) ==
  /\ Len(a) = Len(b)
  /\ \A x \in Range(a) \cup Range(b) :
       Cardinality({k \in 1..Len(a) : a[k] = x})
         = Cardinality({k \in 1..Len(b) : b[k] = x})

SampleCount(row) ==
  IF "n_dates" \in DOMAIN row THEN row.n_dates
  ELSE IF "n_aligned" \in DOMAIN row THEN row.n_aligned
  ELSE 0

\* row k of the input is the first row of its title with 20 samples or more
FirstReliable(k) ==
  /\ SampleCount(all_corr[k]) >= 20
  /\ \A j \in 1..(k - 1) :
       all_corr[j].title = all_corr[k].title => SampleCount(all_corr[j]) < 20

\* C14: every entry of the rotation list has a sample count of at least 20,
\* and the reliability filter runs before deduplication: the first reliable
\* row of each title survives deduplication whatever unreliable rows of the
\* same title precede it.
C14_ReliableBeforeDedupe ==
  /\ Built => \A k \in 1..Len(curated) : SampleCount(curated[k]) >= 20
  /\ cpc \notin {"idle", "load", "reliable", "dedupe"} =>
       \A k \in 1..Len(all_corr) :
         FirstReliable(k) <=> HasId(deduped, all_corr[k].id)

\* an unreliable row precedes a reliable legacy-schema row of the same title,
\* and the reliable one is in the rotation list
C14_Witness ==
  /\ cpc = "done"
  /\ \E j, k \in 1..Len(all_corr) :
       /\ j < k
       /\ all_corr[j].title = all_corr[k].title
       /\ SampleCount(all_corr[j]) < 20
       /\ "n_aligned" \in DOMAIN all_corr[k]
       /\ HasId(curated, all_corr[k].id)
  /\ \E k \in 1..Len(all_corr) : SampleCount(all_corr[k]) = 0

---------------------------------------------------------------------------
(* Properties of a whole run of compute_correlations (SpecBatch)           *)

\* the candidate processed last (the loop is back at its head)
LastCandidate == filtered[i]

\* the result record of series id
RecordOf(id) == results[CHOOSE k \in 1..Len(results) : results[k].id = id]

\* the values the candidate was fetched with, in date order
real_values ==
  LET ds == sorted_dates(real_dates) IN [k \in 1..Len(ds) |-> real_map[ds[k]]]

\* the benchmark values, in date order
benchmark_values == [k \in 1..Len(sp500) |-> sp500[k].value]

IsRankedByAbsR(rows) ==
  \A k \in 1..(Len(rows) - 1) : rows[k].abs_r >= rows[k + 1].abs_r

IdsOf(rows) == {rows[k].id : k \in 1..Len(rows)}

\* C15: with a benchmark window of 60 dates (not constant): a candidate with
\* real, non-constant observations on all 60 dates is accepted with no filled
\* date; one missing 2 dates, both after its first observation, is accepted
\* with 2 filled dates; one missing 10 dates is rejected; one that is constant
\* across the window is rejected; and the ranked output lists the accepted
\* candidates in descending abs_r order and no rejected one.
C15_EndToEnd ==
  /\ (/\ pc = "loop"
      /\ i > 0
      /\ Cardinality(sp500_dates) = 60
      /\ ~is_constant(benchmark_values)) =>
       LET id       == LastCandidate.id
           accepted == HasId(results, id)
           missing  == sp500_dates \ real_dates
       IN  /\ (missing = {} /\ ~is_constant(real_values)) =>
                (accepted /\ RecordOf(id).filled_dates = <<>>)
           /\ (Cardinality(missing) = 2 /\ ~LeadingGap) =>
                (accepted /\ Len(RecordOf(id).filled_dates) = 2)
           /\ Cardinality(missing) = 10 => ~accepted
           /\ (real_obs # <<>> /\ is_constant(real_values)) => ~accepted
  /\ pc = "done" =>
       /\ IsRankedByAbsR(strict_correlations.rows)
       /\ IdsOf(strict_correlations.rows) = IdsOf(results)
       /\ IdsOf(strict_curated.rows) = IdsOf(results)

\* C16: a candidate rejected for its overlap, for a leading gap, for fewer
\* than 10 samples or for zero variance never ends the run: the loop goes on
\* with the next candidate, no record is added and no error is raised; a run
\* aborts only when the catalog or the benchmark is empty or a candidate
\* raised; and a completed run has processed every candidate once and written
\* both files with exactly the accepted candidates.
C16_RejectionIsLocal ==
  /\ [][(\/ pc = "overlap" /\ TooManyMissing
         \/ pc = "fill" /\ LeadingGap
         \/ pc = "score" /\ Len(sp_vals) < 10
         \/ pc = "score" /\ r'.nan) =>
          /\ pc' = "loop"
          /\ i' = i + 1
          /\ results' = results
          /\ error' = ""]_vars
  /\ [](pc = "aborted" => (all_series = <<>> \/ sp500 = <<>> \/ error # ""))
  /\ [](pc = "done" =>
          /\ i = Len(filtered)
          /\ counters.perfect_overlap + counters.partial_overlap
               + counters.no_overlap = Len(filtered)
          /\ strict_correlations.exists /\ strict_curated.exists
          /\ Len(strict_correlations.rows) = counters.perfect_overlap
          /\ Len(strict_curated.rows) = counters.perfect_overlap
          /\ IdsOf(strict_correlations.rows) = IdsOf(results)
          /\ IdsOf(strict_curated.rows) = IdsOf(results)
          /\ IdsOf(results) \subseteq IdsOf(filtered))

\* the first of two candidates was rejected before scoring, the second was
\* accepted, and the files hold the second alone
C16_Witness ==
  /\ pc = "done"
  /\ Len(filtered) = 2
  /\ counters.partial_overlap = 1
  /\ ff_invoked = FALSE
  /\ IdsOf(strict_curated.rows) = {filtered[2].id}
  /\ Len(strict_correlations.rows) = 1

\* C17: when a candidate raises, the run is aborted with an error naming that
\* candidate, nothing happens after the abort, and neither output file is
\* written: no partial ranking.
C17_AbortNamesCandidate ==
  /\ [](error # "" =>
          /\ pc = "aborted"
          /\ i < Len(filtered)
          /\ error = filtered[i + 1].id
          /\ strict_correlations = NoFile
          /\ strict_curated = NoFile)
  /\ [][pc # "aborted"]_vars

\* the second candidate raised after the first was accepted: a record exists
\* in memory, no file does
C17_Witness ==
  /\ error # ""
  /\ i = 1
  /\ Len(results) = 1
  /\ strict_correlations = NoFile
  /\ strict_curated = NoFile

\* C18: an empty catalog, or a benchmark without observations, aborts the run
\* before any candidate is fetched, aligned or scored and before any file is
\* written.
C18_EmptyInputIsFatal ==
  /\ (pc \notin {"category", "catalog", "filter"} /\ all_series = <<>>) =>
       /\ pc = "aborted"
       /\ filtered = <<>>
       /\ sp500 = <<>>
  /\ (pc \notin {"category", "catalog", "filter", "benchmark"} /\ sp500 = <<>>) =>
       /\ pc = "aborted"
       /\ error = ""
       /\ i = 0
       /\ real_obs = <<>>
       /\ sp_vals = <<>>
       /\ other_vals = <<>>
       /\ results = <<>>
       /\ strict_correlations = NoFile
       /\ strict_curated = NoFile

\* a catalog with candidates, a benchmark without observations
C18_Witness ==
  /\ pc = "aborted"
  /\ filtered # <<>>
  /\ sp500 = <<>>

\* s is excluded: by the static ids, by the category ids, or by its title
Disqualified(s) ==
  \/ s.id \in EXCLUDE_IDS
  \/ s.id \in exclude_from_category
  \/ TitleHasKeyword(s)

KeptAbove(k, ice) ==
  Cardinality({j \in 1..(k - 1) :
    /\ IF ice THEN InFamilyIce(financial_series[j])
              ELSE InFamilyVix(financial_series[j])
    /\ HasId(curated, financial_series[j].id)})

\* C21: a financial entry is left out of the rotation list only if a cap it
\* belongs to is full: it contains "ICE BofA" and 5 higher-ranked "ICE BofA"
\* entries were kept, or it contains "CBOE" or "VIX" and 3 higher-ranked
\* CBOE/VIX entries were kept (so an entry dropped under one cap uses no
\* slot of the other).
C21_DroppedOnlyWhenCapFull ==
  Built =>
    \A k \in 1..Len(financial_series) :
      ~HasId(curated, financial_series[k].id) =>
        \/ InFamilyIce(financial_series[k]) /\ KeptAbove(k, TRUE) >= BAML_CAP
        \/ InFamilyVix(financial_series[k]) /\ KeptAbove(k, FALSE) >= VIX_CAP

---------------------------------------------------------------------------
(* Properties of the output files across runs of both tools (SpecTools)    *)

\* curate_series applied to the rows of a ranked results file
curated_of(rows) ==
  LET rel == SelectSeq(rows, is_reliable)
      ded == dedupe(rel)
  IN  sort_by_abs_r(build_curated(sort_by_abs_r(in_category(ded, "funny")),
                                  sort_by_abs_r(in_category(ded, "financial")),
                                  sort_by_abs_r(in_category(ded, "other"))))

\* C20: whenever no tool is running, strict_curated.json (if it exists) holds
\* only entries that pass the curation steps (reliability floor, title
\* deduplication, category thresholds, family caps) applied to the latest
\* ranked results in strict_correlations.json.
C20_CuratedFileIsCurated ==
  (NoToolRunning /\ strict_curated.exists) =>
    /\ strict_correlations.exists
    /\ \A k \in 1..Len(strict_curated.rows) :
         HasId(curated_of(strict_correlations.rows), strict_curated.rows[k].id)

---------------------------------------------------------------------------
(* Properties of fred_get (SpecFredGet)                                    *)

\* requests sent by the current call
CallAttempts == api_attempts - attempts_before

Retryable(x) ==
  \/ x.kind \in {"timeout", "connection_error"}
  \/ x.kind = "response" /\ (x.status = 429 \/ (x.status >= 500 /\ x.status <= 599))
  \/ x.kind = "response" /\ x.status = 200 /\ x.error_code.truthy
       /\ x.error_code.text = "429"

Succeeds(x) == x.kind = "response" /\ x.status = 200 /\ ~x.error_code.truthy

\* a request was sent in this step
Requested == api_attempts' = api_attempts + 1

\* C22: a call of fred_get sends at most `retries` requests and ends; a 200
\* response without error code returns at once; a 429 or 5xx status, a
\* payload error code 429, a timeout or a connection error uses up one
\* attempt and the loop goes on; any other status or payload error raises at
\* once; after `retries` retryable failures the call raises; and the
\* counters satisfy _api_successes + _api_retries <= _api_attempts.
C22_BoundedRetries ==
  /\ [](CallAttempts <= retries)
  /\ [](api_successes + api_retries <= api_attempts)
  /\ [][Requested =>
          /\ Succeeds(resp') =>
               fpc' = "returned" /\ api_successes' = api_successes + 1
          /\ Retryable(resp') =>
               /\ fpc' = "loop"
               /\ attempt' = attempt + 1
               /\ api_retries' = api_retries + 1
          /\ (resp'.kind = "response" /\ ~Succeeds(resp') /\ ~Retryable(resp')) =>
               fpc' = "raised" /\ attempt' = attempt]_vars
  /\ []((fpc = "loop" /\ CallAttempts = retries) => ENABLED Exhausted)
  /\ [][(fpc = "loop" /\ CallAttempts = retries) => fpc' # "returned"]_vars
  /\ (fpc = "loop" ~> fpc \in {"returned", "raised"})

\* a call with 3 attempts failed three times (rate limit, server error or
\* network) and raised
C22_Witness ==
  /\ fpc = "raised"
  /\ retries = MaxRetries
  /\ CallAttempts = MaxRetries
  /\ api_retries >= MaxRetries
  /\ Retryable(resp)

---------------------------------------------------------------------------
(* Properties of walk_category_tree (SpecWalk)                             *)

ChildIds(c) == {fred.children[c][k].id : k \in 1..Len(fred.children[c])}

\* the categories within n steps of the start, never entering a skipped one
RECURSIVE Within(_)
Within(n) ==
  IF n = 0 THEN {walk_root} \ SKIP_CATEGORY_IDS
  ELSE LET near == Within(n - 1)
       IN  near \cup ((UNION {ChildIds(c) : c \in near}) \ SKIP_CATEGORY_IDS)

Reachable == Within(Cardinality(Cats))

DailyIds(c) ==
  {fred.series[c][k].id : k \in {j \in 1..Len(fred.series[c]) :
                                   fred.series[c][j].frequency = "Daily"}}

\* on return every daily series of every reachable category is collected
WalkCollectsAll ==
  wpc = "returned" => \A c \in Reachable : DailyIds(c) \subseteq walk_all_series

\* no category is asked for its children twice
WalkVisitsOnce ==
  \A j, k \in 1..Len(requested) :
    (/\ requested[j].endpoint = "category/children"
     /\ requested[k].endpoint = "category/children"
     /\ requested[j].category_id = requested[k].category_id) => j = k

\* no request names a skipped category
WalkAvoidsSkipped ==
  \A k \in 1..Len(requested) : requested[k].category_id \notin SKIP_CATEGORY_IDS

\* C23: on return of walk_category_tree, all_series holds every daily series
\* of every category reachable from the root without passing through a
\* skipped category, categories with child categories included; each
\* category is visited at most once and no children or series of a skipped
\* category are requested.
C23_WalkCollectsAll ==
  /\ WalkCollectsAll
  /\ WalkVisitsOnce
  /\ WalkAvoidsSkipped

\* what the walk does collect: the daily series of the reachable leaves,
\* beside the series it was started with
WalkCollectsLeaves ==
  LET leaves == UNION {DailyIds(c) : c \in {d \in Reachable : ChildIds(d) = {}}}
  IN  wpc = "returned" =>
        /\ leaves \subseteq walk_all_series
        /\ \E existing \in ExistingSeries : walk_all_series = leaves \cup existing

====
